---- MODULE Spec2Model ----
(***************************************************************************)
(* BotCheck: the multi-axis scoring engine (src/analyzer) as a state       *)
(* machine.  An AnalysisEngine holds a weight mapping; analyze_user takes  *)
(* a batch of message records and an optional profile record and returns   *)
(* a result record, or lets an exception propagate.                        *)
(*                                                                         *)
(* Numbers.  Python computes in floats; the model computes in fixed point: *)
(*   - a score is an integer number of hundredths of a point (50.0 is      *)
(*     5000), which is the precision round(x, 2) leaves in the result;     *)
(*   - a ratio (a coefficient of variation, a share) is an integer number  *)
(*     of ten-thousandths, rounded down;                                   *)
(*   - a weight is an integer number of hundredths (0.20 is 20).           *)
(* Python values are tagged records [t, n, l]: t the type, n the number    *)
(* (or the identity of a text or of a Mock), l the elements of a list.     *)
(***************************************************************************)
EXTENDS Integers, Sequences, FiniteSets, TLC

VARIABLES
    weights,    \* self.weights of the engine
    now,        \* the wall clock, in ticks
    last,       \* the last call of analyze_user: its arguments and outcome
    kept,       \* an earlier call the caller kept
    probe,      \* a call of one analyzer on its own: its arguments and outcome
    db,         \* the SQLite store the API server and the Discord bot share
    wall,       \* the wall clock of the store, in whole seconds
    reply,      \* the last answer of the API server or of the bot
    tasks,      \* the command handlers of the bot called so far, each where it is
    config      \* the settings the bot read from its environment when it started

vars == <<weights, now, last, kept, probe, db, wall, reply, tasks, config>>

-----------------------------------------------------------------------------
(* Bounds of the model *)

\* The longest regular batch (the confidence curve saturates at 100).
MaxCount == 101
\* The clock stops here.
MaxClock == 1
\* The largest factor a weight mapping is scaled by.
MaxScale == 2

-----------------------------------------------------------------------------
(* Fixed point *)

\* Hundredths per point: round(x, 2) in the result record.
Hundredths == 100
\* Ten-thousandths per unit ratio.
RatioScale == 10000

Points(p) == p * Hundredths

Min(a, b) == IF a <= b THEN a ELSE b
Max(a, b) == IF a >= b THEN a ELSE b

\* _clamp(value, low, high) == max(low, min(high, value))
_clamp(v, lo, hi) == Max(lo, Min(hi, v))

\* variant: a score left as computed, without min(max(x, 0.0), 100.0)
ClampScore_none(v) == v

\* min(max(x, 0.0), 100.0), the form timing, style and AI detection use.
ClampScore(v) == Min(Max(v, 0), Points(100))

\* n / d rounded to the nearest integer, ties to even (Python's round), n >= 0 < d.
RoundDiv(n, d) ==
    LET q == n \div d
        r == n % d
    IN  IF 2 * r < d THEN q
        ELSE IF 2 * r > d THEN q + 1
        ELSE IF q % 2 = 0 THEN q ELSE q + 1

\* floor(RatioScale * num / den) for 0 <= num, 0 < den, by long division in
\* base 100 so that no intermediate exceeds 32 bits (den below 2 * 10^7).
FracBP(num, den) ==
    LET q0 == num \div den
        r0 == num % den
        q1 == (r0 * 100) \div den
        r1 == (r0 * 100) % den
        q2 == (r1 * 100) \div den
    IN  q0 * RatioScale + q1 * 100 + q2

RECURSIVE ISqrtIn(_, _, _)
ISqrtIn(n, lo, hi) ==
    IF lo >= hi THEN lo
    ELSE LET mid == (lo + hi + 1) \div 2
         IN  IF mid * mid <= n THEN ISqrtIn(n, mid, hi) ELSE ISqrtIn(n, lo, mid - 1)

\* floor(sqrt(n)) for 0 <= n < 2^30.
ISqrt(n) == ISqrtIn(n, 0, 32767)

RECURSIVE Gcd(_, _)
Gcd(a, b) == IF b = 0 THEN a ELSE Gcd(b, a % b)

RECURSIVE SumSeq(_)
SumSeq(s) == IF s = <<>> THEN 0 ELSE Head(s) + SumSeq(Tail(s))

RECURSIVE SumSquares(_)
SumSquares(s) == IF s = <<>> THEN 0 ELSE Head(s) * Head(s) + SumSquares(Tail(s))

RECURSIVE GcdSeq(_)
GcdSeq(s) == IF s = <<>> THEN 0 ELSE Gcd(Head(s), GcdSeq(Tail(s)))

RECURSIVE Insert(_, _)
Insert(x, s) ==
    IF s = <<>> THEN <<x>>
    ELSE IF x < Head(s) THEN <<x>> \o s
    ELSE <<Head(s)>> \o Insert(x, Tail(s))

RECURSIVE Sorted(_)
\* list.sort() on numbers
Sorted(s) == IF s = <<>> THEN <<>> ELSE Insert(Head(s), Sorted(Tail(s)))

(***************************************************************************)
(* sqrt(statistics.variance(xs)) / mean(xs) as a ratio, for two or more    *)
(* positive xs; 2 stands for every value from 2 up, where each caller      *)
(* has long reached its floor.                                             *)
(***************************************************************************)
CoefficientOfVariation(xs) ==
    LET n   == Len(xs)
        M   == SumSeq(xs)
        V   == n * SumSquares(xs) - M * M
        num == V * n
        den == (n - 1) * M * M
    IN  IF num >= 4 * den THEN 2 * RatioScale
        ELSE ISqrt(FracBP(num, den) * RatioScale)

-----------------------------------------------------------------------------
(* Python values *)

Val(t, n, l) == [t |-> t, n |-> n, l |-> l]

None        == Val("None", 0, <<>>)
PyInt(n)    == Val("int", n, <<>>)
Bool(b)     == Val("bool", IF b THEN 1 ELSE 0, <<>>)
\* a str: n names the text (see Texts)
Str(n)      == Val("str", n, <<>>)
\* a naive datetime, n seconds after the epoch
DateTime(n) == Val("datetime", n, <<>>)
\* a datetime with tzinfo
Aware(n)    == Val("aware", n, <<>>)
\* an ISO-8601 string that datetime.fromisoformat parses
IsoStr(n)   == Val("isostr", n, <<>>)
\* a number past the range datetime.fromtimestamp accepts (1e18)
HugeNumber  == Val("huge", 0, <<>>)
\* a list of identities (ints, or objects with an id attribute)
List(l)     == Val("list", 0, l)
\* a unittest.mock.Mock, each its own object
MockObj(n)  == Val("Mock", n, <<>>)

\* bool(v)
Truthy(v) ==
    CASE v.t = "None"   -> FALSE
      [] v.t = "int"    -> v.n # 0
      [] v.t = "bool"   -> v.n = 1
      [] v.t = "str"    -> v.n # 0
      [] v.t = "list"   -> v.l # <<>>
      [] OTHER          -> TRUE

\* Text 0 is the empty string.
EmptyStr == Str(0)

-----------------------------------------------------------------------------
(* Message records *)

(***************************************************************************)
(* A message is an attribute object ("obj"), a unittest Mock ("mock",      *)
(* every attribute of which exists: one never set is a Mock of its own) or *)
(* a dict ("dict").  fields maps the attributes or keys it carries to      *)
(* their values; oid tells two objects apart.                              *)
(***************************************************************************)
Message(kind, oid, fields) == [kind |-> kind, oid |-> oid, fields |-> fields]

hasattr(obj, attr) ==
    \/ obj.kind = "mock"
    \/ obj.kind = "obj" /\ attr \in DOMAIN obj.fields

getattr(obj, attr) ==
    IF attr \in DOMAIN obj.fields THEN obj.fields[attr] ELSE MockObj(obj.oid)

isdict(obj) == obj.kind = "dict"

\* utils._get: the attribute, else the dict key, else the default.
_get(obj, attr, default) ==
    IF hasattr(obj, attr) THEN getattr(obj, attr)
    ELSE IF isdict(obj) /\ attr \in DOMAIN obj.fields THEN obj.fields[attr]
    ELSE default

EmptyList == List(<<>>)

-----------------------------------------------------------------------------
(* analyzer/timing.py *)

min_messages_for_analysis == 3

\* TimingAnalyzer._extract_timestamp: seconds as a number, HugeNumber, or None.
_extract_timestamp(msg) ==
    LET created_at == _get(msg, "created_at", None)
        timestamp  == _get(msg, "timestamp", None)
        fallback   ==
            IF timestamp.t \in {"int", "bool"} THEN PyInt(timestamp.n)
            ELSE IF timestamp.t = "huge" THEN HugeNumber
            ELSE None
    IN  IF Truthy(created_at)
        THEN CASE created_at.t \in {"datetime", "aware"} -> PyInt(created_at.n)
               [] created_at.t \in {"int", "bool"}       -> PyInt(created_at.n)
               [] created_at.t = "huge"                  -> HugeNumber
               [] created_at.t = "isostr"                -> PyInt(created_at.n)
               [] OTHER                                  -> fallback
        ELSE fallback

RECURSIVE Timestamps(_)
\* the timestamps the loops of timing.py keep: "if timestamp:"
Timestamps(messages) ==
    IF messages = <<>> THEN <<>>
    ELSE LET ts == _extract_timestamp(Head(messages))
         IN  (IF Truthy(ts) THEN <<ts>> ELSE <<>>) \o Timestamps(Tail(messages))

RECURSIVE Numbers(_)
Numbers(values) ==
    IF values = <<>> THEN <<>>
    ELSE (IF Head(values).t = "int" THEN <<Head(values).n>> ELSE <<>>)
         \o Numbers(Tail(values))

RECURSIVE PositiveGaps(_)
PositiveGaps(sorted) ==
    IF Len(sorted) < 2 THEN <<>>
    ELSE (IF sorted[2] - sorted[1] > 0 THEN <<sorted[2] - sorted[1]>> ELSE <<>>)
         \o PositiveGaps(Tail(sorted))

(***************************************************************************)
(* TimingAnalyzer._calculate_intervals: the positive gaps between the      *)
(* sorted timestamps.  A huge timestamp sorts last; the gap from the last  *)
(* ordinary timestamp to it is huge (far above every other gap), and the   *)
(* gap between two huge timestamps is 0 and dropped.                       *)
(***************************************************************************)
_calculate_intervals(messages) ==
    LET ts     == Timestamps(messages)
        finite == Sorted(Numbers(ts))
        nHuge  == Len(ts) - Len(finite)
    IN  [xs   |-> PositiveGaps(finite),
         huge |-> nHuge > 0 /\ finite # <<>>]

regular_interval_threshold == 2000

\* the numbers of xs divided by their greatest common divisor
Reduced(xs) ==
    LET g == GcdSeq(xs)
    IN  [i \in 1..Len(xs) |-> xs[i] \div g]

\* variant: no bonus for a coefficient of variation below the threshold
RegularityScore_unrewarded(intervals) ==
    IF Len(intervals.xs) + (IF intervals.huge THEN 1 ELSE 0) < 2 THEN Points(50)
    ELSE IF intervals.huge THEN Points(5)
    ELSE LET cv == CoefficientOfVariation(Reduced(intervals.xs))
         IN  Max(Points(5), Points(40) - (cv * 6) \div 10)

(***************************************************************************)
(* The score _analyze_interval_regularity gives the gaps.  The coefficient *)
(* of variation does not change when every gap is divided by the gaps'     *)
(* gcd, which is done first to keep the squares small.  One huge gap among *)
(* n gaps brings it to sqrt(n) >= sqrt(2), and max(5, 40 - 60 cv) to 5.    *)
(***************************************************************************)
RegularityScore(intervals) ==
    IF Len(intervals.xs) + (IF intervals.huge THEN 1 ELSE 0) < 2 THEN Points(50)
    ELSE IF intervals.huge THEN Points(5)
    ELSE LET cv == CoefficientOfVariation(Reduced(intervals.xs))
         IN  IF cv < regular_interval_threshold
             THEN Min(Points(80) + (regular_interval_threshold - cv) * 3, Points(100))
             ELSE Max(Points(5), Points(40) - (cv * 6) \div 10)

\* TimingAnalyzer._analyze_interval_regularity
_analyze_interval_regularity(messages) ==
    RegularityScore(_calculate_intervals(messages))

\* iter(v) works: a list or a string; a number, a datetime or a Mock raises
\* TypeError.
Iterable(v) == v.t \in {"list", "str", "isostr"}

\* the ids a "for m in mentions" loop sees (a string yields characters, none
\* of which is an id)
Elements(v) == IF v.t = "list" THEN v.l ELSE <<>>

InSeq(x, s) == \E i \in 1..Len(s) : s[i] = x

\* TimingAnalyzer._is_reply_to_mention reaches its list comprehension
ReachesMentionLoop(msg1, msg2) ==
    LET author1 == _get(msg1, "author_id", None)
        author2 == _get(msg2, "author_id", None)
    IN  /\ Truthy(author1) /\ Truthy(author2) /\ author1 # author2
        /\ Truthy(_get(msg1, "mentions", EmptyList))

\* ... and the comprehension raises TypeError: mentions is not iterable
ReplyCheckRaises(msg1, msg2) ==
    /\ ReachesMentionLoop(msg1, msg2)
    /\ ~Iterable(_get(msg1, "mentions", EmptyList))

\* TimingAnalyzer._is_reply_to_mention, when it returns
_is_reply_to_mention(msg1, msg2) ==
    /\ ReachesMentionLoop(msg1, msg2)
    /\ LET author2 == _get(msg2, "author_id", None)
       IN  /\ author2.t = "int"
           /\ InSeq(author2.n, Elements(_get(msg1, "mentions", EmptyList)))

\* TimingAnalyzer._get_time_difference is set and below 30 seconds
RapidReply(msg1, msg2) ==
    LET timestamp1 == _extract_timestamp(msg1)
        timestamp2 == _extract_timestamp(msg2)
    IN  /\ Truthy(timestamp1) /\ Truthy(timestamp2)
        /\ timestamp1.t = "int" /\ timestamp2.t = "int"
        /\ timestamp2.n > timestamp1.n
        /\ timestamp2.n - timestamp1.n < 30

\* TimingAnalyzer._analyze_reply_speed
_analyze_reply_speed(messages) ==
    IF Len(messages) < 4 THEN Points(50)
    ELSE LET replies == {i \in 1..(Len(messages) - 1) :
                            _is_reply_to_mention(messages[i], messages[i + 1])}
             rapid   == {i \in replies : RapidReply(messages[i], messages[i + 1])}
         IN  IF replies = {} THEN Points(50)
             ELSE Min(Points(50) + (Points(400) * Cardinality(rapid))
                                       \div Cardinality(replies),
                      Points(100))

\* the TypeError of _is_reply_to_mention leaves _analyze_reply_speed
_analyze_reply_speed_raises(messages) ==
    /\ Len(messages) >= 4
    /\ \E i \in 1..(Len(messages) - 1) : ReplyCheckRaises(messages[i], messages[i + 1])

\* datetime.fromtimestamp(ts).hour and .weekday(), the local zone being UTC
\* (1970-01-01 was a Thursday, weekday 3)
HourOf(ts) == (ts \div 3600) % 24
WeekdayOf(ts) == ((ts \div 86400) + 3) % 7

(***************************************************************************)
(* TimingAnalyzer._calculate_distribution_uniformity over the bins that    *)
(* occur: with T samples in expected_bins bins,                            *)
(*   chi_square / T = sum over the bins present of (bins * c - T)^2        *)
(*                    / (bins * T^2).                                      *)
(* bin maps each sample to its bin; the result is a ratio.                 *)
(***************************************************************************)
_calculate_distribution_uniformity(bin, expected_bins) ==
    LET T == Len(bin)
        count(b) == Cardinality({i \in 1..T : bin[i] = b})
        present == {bin[i] : i \in 1..T}
        dev == [b \in present |-> (expected_bins * count(b) - T)
                                    * (expected_bins * count(b) - T)]
        RECURSIVE SumOver(_)
        SumOver(B) == IF B = {} THEN 0
                      ELSE LET b == CHOOSE x \in B : TRUE
                           IN  dev[b] + SumOver(B \ {b})
        S == SumOver(present)
        D == expected_bins * T * T
    IN  IF T = 0 THEN 0
        ELSE IF S >= D THEN 0
        ELSE RatioScale - FracBP(S, D)

\* TimingAnalyzer._analyze_activity_patterns, when fromtimestamp accepts
\* every timestamp
_analyze_activity_patterns(messages) ==
    IF Len(messages) < 10 THEN Points(50)
    ELSE LET ts == Numbers(Timestamps(messages))
             hour_uniformity ==
                 _calculate_distribution_uniformity(
                     [i \in 1..Len(ts) |-> HourOf(ts[i])], 24)
             day_uniformity ==
                 _calculate_distribution_uniformity(
                     [i \in 1..Len(ts) |-> WeekdayOf(ts[i])], 7)
         IN  Min(Points(50) + ((hour_uniformity + day_uniformity) * 3) \div 4,
                 Points(100))

\* datetime.fromtimestamp raises (OverflowError, OSError or ValueError, by
\* platform) on a timestamp out of its range
_analyze_activity_patterns_raises(messages) ==
    /\ Len(messages) >= 10
    /\ \E i \in 1..Len(messages) : _extract_timestamp(messages[i]).t = "huge"

\* The exception that leaves analyze_timing, "" when it returns.
analyze_timing_raises(messages) ==
    IF Len(messages) < min_messages_for_analysis THEN ""
    ELSE IF _analyze_reply_speed_raises(messages) THEN "TypeError"
    ELSE IF _analyze_activity_patterns_raises(messages) THEN "OverflowError"
    ELSE ""

\* TimingAnalyzer.analyze_timing
analyze_timing(messages) ==
    IF Len(messages) < min_messages_for_analysis THEN Points(50)
    ELSE ClampScore((_analyze_interval_regularity(messages) * 40
                     + _analyze_reply_speed(messages) * 30
                     + _analyze_activity_patterns(messages) * 30) \div 100)

-----------------------------------------------------------------------------
(* Texts *)

(***************************************************************************)
(* The strings of the model, by number.  What the regular expressions and  *)
(* substring tests of the analyzers find in each is tabulated below.       *)
(*    0  ""                      1  "ok"                                    *)
(*    2  "どうしたの？"            3  "承知いたしました。"                   *)
(*    4  "普通のメッセージだよ〜"   5  "   " (blank)                         *)
(*    6  "garbage"               7  "None", which is str(None)             *)
(*    8  "ご質問ありがとうございます。承知いたしました。"                     *)
(*    9  "However, the results were improved today. Furthermore, it was    *)
(*        expected."                                                       *)
(*   10  "今日は楽しかった😊😊 また行こう！😂"                               *)
(* Every message object of the model carries a content; a dict may lack   *)
(* the key.                                                                *)
(***************************************************************************)
\* str(v) of a content value
PyStr(v) ==
    CASE v.t = "str"  -> v.n
      [] v.t = "None" -> 7
      [] OTHER        -> 1

\* len(text)
TextLen(text) ==
    CASE text = 0 -> 0   [] text = 1 -> 2   [] text = 2 -> 6   [] text = 3 -> 9
      [] text = 4 -> 11  [] text = 5 -> 3   [] text = 6 -> 7   [] text = 7 -> 4
      [] text = 8 -> 23  [] text = 9 -> 71  [] text = 10 -> 18
      [] OTHER -> 0

\* text.strip()
Strip(text) == IF text = 5 THEN 0 ELSE text

\* the texts holding one of the four template_phrases of behavior.py
BehaviorTemplateTexts == {3, 8}
\* the texts holding one of "?", "？", "どう", "なぜ", "何"
QuestionTexts == {2}

-----------------------------------------------------------------------------
(* analyzer/behavior.py *)

\* the size of a set of integers: a Counter's total when S is its items
RECURSIVE SumFn(_, _)
SumFn(f, S) == IF S = {} THEN 0
               ELSE LET x == CHOOSE y \in S : TRUE IN f[x] + SumFn(f, S \ {x})

MaxOf(S) == CHOOSE x \in S : \A y \in S : y <= x

\* behavior._content
_content(msg) ==
    LET c == _get(msg, "content", EmptyStr)
    IN  IF Truthy(c) THEN PyStr(c) ELSE 0

\* the ids a try/for loop over mentions counts before a TypeError ends it
MentionIds(msg) ==
    LET mentions == _get(msg, "mentions", EmptyList)
    IN  IF Truthy(mentions) THEN Elements(mentions) ELSE <<>>

\* BehaviorAnalyzer._analyze_mention_patterns
_analyze_mention_patterns(messages) ==
    LET n == Len(messages)
        targetsOf == [i \in 1..n |-> MentionIds(messages[i])]
        ids == UNION {{targetsOf[i][j] : j \in 1..Len(targetsOf[i])} : i \in 1..n}
        targets == [t \in ids |->
                      SumFn([i \in 1..n |->
                               Cardinality({j \in 1..Len(targetsOf[i]) :
                                               targetsOf[i][j] = t})], 1..n)]
        total == SumFn([i \in 1..n |-> Len(targetsOf[i])], 1..n)
    IN  IF total = 0 THEN Points(30)
        ELSE LET max_count == MaxOf({targets[t] : t \in ids})
             IN  IF 5 * max_count > 4 * total
                 THEN _clamp((Points(300) * max_count) \div total - Points(170),
                             0, Points(100))
                 ELSE IF 2 * max_count > total
                 THEN _clamp(350 + (Points(83) * max_count) \div total, 0, Points(100))
                 ELSE Max(Points(10), Points(40) - (Points(60) * max_count) \div total)

\* BehaviorAnalyzer._analyze_channel_usage
_analyze_channel_usage(messages) ==
    LET n == Len(messages)
        ch == [i \in 1..n |-> _get(messages[i], "channel_id", EmptyStr)]
        used == {i \in 1..n : Truthy(ch[i])}
        keys == {ch[i] : i \in used}
        usage == [k \in keys |-> Cardinality({i \in used : ch[i] = k})]
        total_msgs == Cardinality(used)
        unique == Cardinality(keys)
    IN  IF used = {} THEN Points(50)
        ELSE IF unique = 1 THEN Points(70)
        ELSE LET top == MaxOf({usage[k] : k \in keys})
             IN  IF 10 * top > 9 * total_msgs
                 THEN _clamp((Points(400) * top) \div total_msgs - Points(300),
                             0, Points(100))
                 ELSE Max(Points(20), Points(50) - (unique - 2) * Points(5))

\* variant: the moderate band reaches up to a quarter
_calculate_editing_score_quarter(messages) ==
    LET n == Len(messages)
        edited == Cardinality({i \in 1..n : _get(messages[i], "edited_at", None) # None})
    IN  IF n = 0 THEN Points(50)
        ELSE IF edited = 0 THEN Points(65)
        ELSE IF 2 * edited > n THEN Points(70)
        ELSE IF 20 * edited >= n /\ 4 * edited <= n THEN Points(25)
        ELSE Points(45)

\* BehaviorAnalyzer._calculate_editing_score
_calculate_editing_score(messages) ==
    LET n == Len(messages)
        edited == Cardinality({i \in 1..n : _get(messages[i], "edited_at", None) # None})
    IN  IF n = 0 THEN Points(50)
        ELSE IF edited = 0 THEN Points(65)
        ELSE IF 2 * edited > n THEN Points(70)
        ELSE IF 20 * edited >= n /\ 5 * edited <= n THEN Points(25)
        ELSE Points(45)

\* variant: the natural band is tested before the single emoji type
_calculate_reaction_score_band_first(messages) ==
    LET n == Len(messages)
        reactions == [i \in 1..n |-> _get(messages[i], "reactions", EmptyList)]
        with_reactions == Cardinality({i \in 1..n : Truthy(reactions[i])})
        reaction_types ==
            UNION {{Elements(reactions[i])[j] : j \in 1..Len(Elements(reactions[i]))} :
                      i \in {k \in 1..n : Truthy(reactions[k])}}
    IN  IF n = 0 THEN Points(50)
        ELSE IF with_reactions = 0 THEN Points(80)
        ELSE IF 10 * with_reactions >= n /\ 5 * with_reactions <= 2 * n THEN Points(30)
        ELSE IF Cardinality(reaction_types) = 1 /\ with_reactions > 3 THEN Points(75)
        ELSE Points(50)

\* BehaviorAnalyzer._calculate_reaction_score
_calculate_reaction_score(messages) ==
    LET n == Len(messages)
        reactions == [i \in 1..n |-> _get(messages[i], "reactions", EmptyList)]
        with_reactions == Cardinality({i \in 1..n : Truthy(reactions[i])})
        reaction_types ==
            UNION {{Elements(reactions[i])[j] : j \in 1..Len(Elements(reactions[i]))} :
                      i \in {k \in 1..n : Truthy(reactions[k])}}
    IN  IF n = 0 THEN Points(50)
        ELSE IF with_reactions = 0 THEN Points(80)
        ELSE IF Cardinality(reaction_types) = 1 /\ with_reactions > 3 THEN Points(75)
        ELSE IF 10 * with_reactions >= n /\ 5 * with_reactions <= 2 * n THEN Points(30)
        ELSE Points(50)

\* BehaviorAnalyzer._analyze_conversation_context
_analyze_conversation_context(messages) ==
    LET n == Len(messages)
        content == [i \in 1..n |-> _content(messages[i])]
        template_count == Cardinality({i \in 1..n : content[i] \in BehaviorTemplateTexts})
        context_breaks == Cardinality({i \in 2..n :
                                          /\ content[i - 1] \in QuestionTexts
                                          /\ content[i] \in BehaviorTemplateTexts})
    IN  IF n < 10 THEN Points(50)
        ELSE _clamp((template_count * 7800 * (n - 1) + context_breaks * 10400 * n)
                        \div (n * (n - 1)),
                    0, Points(100))

\* BehaviorAnalyzer._text_similarity of the contents at positions I and J, a ratio
_text_similarity(content, I, J) ==
    LET len1 == SumFn([i \in I |-> TextLen(content[i])], I) * Cardinality(J)
        len2 == SumFn([j \in J |-> TextLen(content[j])], J) * Cardinality(I)
        diff == IF len1 >= len2 THEN len1 - len2 ELSE len2 - len1
        most == Max(Max(len1, len2), Cardinality(I) * Cardinality(J))
        len_sim == RatioScale - Min(FracBP(diff, most), RatioScale)
        set1 == {content[i] : i \in I}
        set2 == {content[j] : j \in J}
        overlap == FracBP(Cardinality(set1 \cap set2),
                          Max(Cardinality(set1 \cup set2), 1))
    IN  (len_sim + overlap) \div 2

\* BehaviorAnalyzer._analyze_cross_channel_consistency
_analyze_cross_channel_consistency(messages) ==
    LET n == Len(messages)
        \* str(channel_id): only the empty string is falsy
        ch == [i \in 1..n |-> _get(messages[i], "channel_id", EmptyStr)]
        content == [i \in 1..n |-> _content(messages[i])]
        kept_ == {i \in 1..n : ch[i] # EmptyStr /\ content[i] # 0}
        channels == {ch[i] : i \in kept_}
        by_channel == [c \in channels |-> {i \in kept_ : ch[i] = c}]
        pairs == {p \in SUBSET channels :
                     /\ Cardinality(p) = 2
                     /\ \A c \in p : Cardinality(by_channel[c]) >= 3}
        sim == [p \in pairs |->
                  LET c1 == CHOOSE c \in p : TRUE
                      c2 == CHOOSE c \in p : c # c1
                  IN  _text_similarity(content, by_channel[c1], by_channel[c2])]
    IN  IF Cardinality(channels) < 2 THEN Points(50)
        ELSE IF pairs = {} THEN Points(50)
        ELSE LET avg == SumFn(sim, pairs) \div Cardinality(pairs)
             IN  IF avg > 7000
                 THEN _clamp(Points(65) + (avg - 7000) * 3, 0, Points(100))
                 ELSE IF avg > 5000
                 THEN _clamp(Points(35) + ((avg - 5000) * 3) \div 2, 0, Points(100))
                 ELSE Points(25)

\* the weighted sum left as it is, not multiplied by 1.25
BehaviorTotal_unboosted(messages) ==
    (_analyze_mention_patterns(messages) * 25
     + _analyze_channel_usage(messages) * 20
     + _calculate_editing_score(messages) * 15
     + _calculate_reaction_score(messages) * 15
     + _analyze_conversation_context(messages) * 15
     + _analyze_cross_channel_consistency(messages) * 10) \div 100

\* BehaviorAnalyzer.analyze_behavior, before the clamp: the weighted sum
\* times 1.25
BehaviorTotal(messages) ==
    ((_analyze_mention_patterns(messages) * 25
      + _analyze_channel_usage(messages) * 20
      + _calculate_editing_score(messages) * 15
      + _calculate_reaction_score(messages) * 15
      + _analyze_conversation_context(messages) * 15
      + _analyze_cross_channel_consistency(messages) * 10) * 125) \div 10000

\* BehaviorAnalyzer.analyze_behavior
analyze_behavior(messages) ==
    IF Len(messages) < 5 THEN Points(50)
    ELSE _clamp(BehaviorTotal(messages), 0, Points(100))

-----------------------------------------------------------------------------
(* analyzer/network.py *)

(***************************************************************************)
(* str(v) of an identity, as a number: an int is its own key, and the      *)
(* string of anything else is a key no int has.                            *)
(***************************************************************************)
IdStr(v) ==
    CASE v.t = "int"  -> v.n
      [] v.t = "None" -> -1
      [] v.t = "Mock" -> -100 - v.n
      [] v.t = "str"  -> -1000 - v.n
      [] OTHER        -> -2

\* NetworkAnalyzer._extract_mention_ids
_extract_mention_ids(mentions) ==
    IF ~Truthy(mentions) THEN <<>> ELSE Elements(mentions)

\* NetworkAnalyzer._infer_target_user: the str of the commonest author that is
\* not None, the earliest of them on a tie; None is NoTarget
NoTarget == -1
_infer_target_user(messages) ==
    LET n == Len(messages)
        author == [i \in 1..n |-> _get(messages[i], "author_id", None)]
        counted == {i \in 1..n : author[i] # None}
        author_counts == [i \in counted |->
                            Cardinality({j \in counted : IdStr(author[j]) = IdStr(author[i])})]
    IN  IF counted = {} THEN NoTarget
        ELSE LET most == MaxOf({author_counts[i] : i \in counted})
                 first == CHOOSE i \in counted :
                             /\ author_counts[i] = most
                             /\ \A j \in counted : author_counts[j] = most => i <= j
             IN  IdStr(author[first])

\* the per-message facts the four network sub-analyses read
NetworkFacts(messages, target_user_id) ==
    [i \in 1..Len(messages) |->
        LET mentions == _get(messages[i], "mentions", EmptyList)
            ids == _extract_mention_ids(mentions)
        IN  [author    |-> IdStr(_get(messages[i], "author_id", None)),
             mentions  |-> Truthy(mentions),
             ids       |-> {ids[j] : j \in 1..Len(ids)},
             nids      |-> Len(ids),
             channel   |-> _get(messages[i], "channel_id", None),
             by_target |-> IdStr(_get(messages[i], "author_id", None)) = target_user_id]]

\* variant: nobody counts as a mutual contact
_analyze_reciprocity_no_mutual(messages, target_user_id) ==
    LET f == NetworkFacts(messages, target_user_id)
        n == Len(messages)
        sent_set == UNION {f[i].ids : i \in {j \in 1..n : f[j].mentions /\ f[j].by_target}}
        received_set == {f[i].author : i \in {j \in 1..n :
                              /\ f[j].mentions /\ ~f[j].by_target
                              /\ target_user_id \in f[j].ids}}
        total_contacts == Cardinality(sent_set \cup received_set)
    IN  IF total_contacts = 0 THEN Points(60) ELSE Points(100)

\* variant: a mutual share of 0.2 itself scores 45 (>= for > in the second
\* test)
_analyze_reciprocity_fifth_mid(messages, target_user_id) ==
    LET f == NetworkFacts(messages, target_user_id)
        n == Len(messages)
        sent_set == UNION {f[i].ids : i \in {j \in 1..n : f[j].mentions /\ f[j].by_target}}
        received_set == {f[i].author : i \in {j \in 1..n :
                              /\ f[j].mentions /\ ~f[j].by_target
                              /\ target_user_id \in f[j].ids}}
        mutual == Cardinality(sent_set \cap received_set)
        total_contacts == Cardinality(sent_set \cup received_set)
    IN  IF total_contacts = 0 THEN Points(60)
        ELSE IF 2 * mutual > total_contacts
        THEN _clamp(Points(10) + (Points(40) * (total_contacts - mutual)) \div total_contacts,
                    0, Points(100))
        ELSE IF 5 * mutual >= total_contacts THEN Points(45)
        ELSE _clamp(Points(65) + (Points(35) * (total_contacts - 5 * mutual))
                                     \div total_contacts,
                    0, Points(100))

\* NetworkAnalyzer._analyze_reciprocity
_analyze_reciprocity(messages, target_user_id) ==
    LET f == NetworkFacts(messages, target_user_id)
        n == Len(messages)
        sent_set == UNION {f[i].ids : i \in {j \in 1..n : f[j].mentions /\ f[j].by_target}}
        received_set == {f[i].author : i \in {j \in 1..n :
                              /\ f[j].mentions /\ ~f[j].by_target
                              /\ target_user_id \in f[j].ids}}
        mutual == Cardinality(sent_set \cap received_set)
        total_contacts == Cardinality(sent_set \cup received_set)
    IN  IF total_contacts = 0 THEN Points(60)
        ELSE IF 2 * mutual > total_contacts
        THEN _clamp(Points(10) + (Points(40) * (total_contacts - mutual)) \div total_contacts,
                    0, Points(100))
        ELSE IF 5 * mutual > total_contacts THEN Points(45)
        ELSE _clamp(Points(65) + (Points(35) * (total_contacts - 5 * mutual))
                                     \div total_contacts,
                    0, Points(100))

\* variant: the balance formula alone, without the one-sided cases
_analyze_mention_balance_formula(messages, target_user_id) ==
    LET f == NetworkFacts(messages, target_user_id)
        n == Len(messages)
        sent_mentions ==
            SumFn([i \in 1..n |-> IF f[i].mentions /\ f[i].by_target THEN f[i].nids ELSE 0],
                  1..n)
        received_mentions ==
            Cardinality({i \in 1..n : f[i].mentions /\ target_user_id \in f[i].ids})
        lo == Min(sent_mentions, received_mentions)
        hi == Max(sent_mentions, received_mentions)
    IN  IF sent_mentions + received_mentions = 0 THEN Points(55)
        ELSE IF 2 * lo > hi
        THEN _clamp(Points(15) + (Points(40) * (hi - lo)) \div hi, 0, Points(100))
        ELSE _clamp(Points(50) + (Points(50) * (hi - 2 * lo)) \div hi, 0, Points(100))

\* NetworkAnalyzer._analyze_mention_balance
_analyze_mention_balance(messages, target_user_id) ==
    LET f == NetworkFacts(messages, target_user_id)
        n == Len(messages)
        sent_mentions ==
            SumFn([i \in 1..n |-> IF f[i].mentions /\ f[i].by_target THEN f[i].nids ELSE 0],
                  1..n)
        received_mentions ==
            Cardinality({i \in 1..n : f[i].mentions /\ target_user_id \in f[i].ids})
        lo == Min(sent_mentions, received_mentions)
        hi == Max(sent_mentions, received_mentions)
    IN  IF sent_mentions + received_mentions = 0 THEN Points(55)
        ELSE IF received_mentions = 0 THEN Points(80)
        ELSE IF sent_mentions = 0 THEN Points(65)
        ELSE IF 2 * lo > hi
        THEN _clamp(Points(15) + (Points(40) * (hi - lo)) \div hi, 0, Points(100))
        ELSE _clamp(Points(50) + (Points(50) * (hi - 2 * lo)) \div hi, 0, Points(100))

\* NetworkAnalyzer._analyze_channel_relations
_analyze_channel_relations(messages, target_user_id) ==
    LET f == NetworkFacts(messages, target_user_id)
        n == Len(messages)
        own == {i \in 1..n : Truthy(f[i].channel) /\ f[i].by_target}
        channels_active == {f[i].channel : i \in own}
        channels_with_interaction == {f[i].channel : i \in {j \in own : f[j].mentions}}
        a == Cardinality(channels_active)
        w == Cardinality(channels_with_interaction)
    IN  IF a = 0 THEN Points(50)
        ELSE IF a = 1 THEN Points(65)
        ELSE IF 2 * w > a
        THEN _clamp(Points(15) + (Points(30) * (a - w)) \div a, 0, Points(100))
        ELSE _clamp(Points(50) + (Points(30) * (a - 2 * w)) \div a, 0, Points(100))

\* variant: an account nobody interacts with is scored neutral
_analyze_isolation_neutral(messages, target_user_id) ==
    LET f == NetworkFacts(messages, target_user_id)
        n == Len(messages)
        target_message_count == Cardinality({i \in 1..n : f[i].by_target})
        interacted_users ==
            UNION {f[i].ids : i \in {j \in 1..n : f[j].by_target /\ f[j].mentions}}
            \cup {f[i].author : i \in {j \in 1..n :
                      /\ ~f[j].by_target /\ f[j].mentions
                      /\ target_user_id \in f[j].ids}}
        users == Cardinality(interacted_users)
    IN  IF target_message_count = 0 THEN Points(50)
        ELSE IF users = 0 THEN Points(50)
        ELSE IF 10 * users > 3 * target_message_count THEN Points(15)
        ELSE IF 10 * users > target_message_count THEN Points(35)
        ELSE _clamp(Points(60) + (Points(25) * (target_message_count - 10 * users))
                                     \div target_message_count,
                    0, Points(100))

\* NetworkAnalyzer._analyze_isolation
_analyze_isolation(messages, target_user_id) ==
    LET f == NetworkFacts(messages, target_user_id)
        n == Len(messages)
        target_message_count == Cardinality({i \in 1..n : f[i].by_target})
        interacted_users ==
            UNION {f[i].ids : i \in {j \in 1..n : f[j].by_target /\ f[j].mentions}}
            \cup {f[i].author : i \in {j \in 1..n :
                      /\ ~f[j].by_target /\ f[j].mentions
                      /\ target_user_id \in f[j].ids}}
        users == Cardinality(interacted_users)
    IN  IF target_message_count = 0 THEN Points(50)
        ELSE IF users = 0 THEN Points(85)
        ELSE IF 10 * users > 3 * target_message_count THEN Points(15)
        ELSE IF 10 * users > target_message_count THEN Points(35)
        ELSE _clamp(Points(60) + (Points(25) * (target_message_count - 10 * users))
                                     \div target_message_count,
                    0, Points(100))

\* variant: the network analysis starts at three messages
analyze_network_from_three(messages, given) ==
    LET target_user_id == IF given = None THEN _infer_target_user(messages)
                          ELSE IdStr(given)
    IN  IF Len(messages) < 3 THEN Points(50)
        ELSE IF target_user_id = NoTarget THEN Points(50)
        ELSE _clamp((_analyze_reciprocity(messages, target_user_id) * 30
                     + _analyze_mention_balance(messages, target_user_id) * 25
                     + _analyze_channel_relations(messages, target_user_id) * 20
                     + _analyze_isolation(messages, target_user_id) * 25) \div 100,
                    0, Points(100))

\* NetworkAnalyzer.analyze_network; given is the target_user_id argument (None
\* when left out), and the sub-analyses read the target only through str()
analyze_network(messages, given) ==
    LET target_user_id == IF given = None THEN _infer_target_user(messages)
                          ELSE IdStr(given)
    IN  IF Len(messages) < 5 THEN Points(50)
        ELSE IF target_user_id = NoTarget THEN Points(50)
        ELSE _clamp((_analyze_reciprocity(messages, target_user_id) * 30
                     + _analyze_mention_balance(messages, target_user_id) * 25
                     + _analyze_channel_relations(messages, target_user_id) * 20
                     + _analyze_isolation(messages, target_user_id) * 25) \div 100,
                    0, Points(100))

-----------------------------------------------------------------------------
(* analyzer/profile.py *)

(***************************************************************************)
(* A profile record is None (NoInfo) or a dict, given as the function      *)
(* from its keys to their values.  Strings of a profile:                   *)
(*   11 "online"    12 "offline"   13 "2024-13-45" (no ISO date)           *)
(*   21 "alice"     22 "user12345"  23 "xk7q9z2m4p"                        *)
(***************************************************************************)
EmptyDict == [k \in {} |-> None]
NoInfo == [present |-> FALSE, fields |-> EmptyDict]
Info(fields) == [present |-> TRUE, fields |-> fields]

\* user_info or {}
OrEmpty(user_info) == IF user_info.present THEN user_info.fields ELSE EmptyDict

\* dict.get(key), None when the key is missing
DictGet(d, key) == IF key \in DOMAIN d THEN d[key] ELSE None

SecondsPerDay == 86400

\* (now - created_at).days, and the float age of a numeric created_at: the
\* floor decides every "age_days < k" alike
AgeDays(clock, created) ==
    IF clock >= created THEN (clock - created) \div SecondsPerDay
    ELSE -(((created - clock) + SecondsPerDay - 1) \div SecondsPerDay)

\* variant: an account of exactly seven days still counts as a week old
_analyze_account_age_week(user_info, clock) ==
    LET created_at == DictGet(user_info, "created_at")
    IN  IF created_at.t \in {"datetime", "aware", "isostr", "int"}
        THEN LET age_days == AgeDays(clock, created_at.n)
             IN  IF age_days < 1 THEN Points(95)
                 ELSE IF age_days <= 7 THEN Points(80)
                 ELSE IF age_days < 30 THEN Points(60)
                 ELSE IF age_days < 90 THEN Points(40)
                 ELSE IF age_days < 365 THEN Points(25)
                 ELSE Points(10)
        ELSE IF created_at.t = "huge" THEN Points(95)
        ELSE Points(50)

\* ProfileAnalyzer._analyze_account_age at the clock reading clock
_analyze_account_age(user_info, clock) ==
    LET created_at == DictGet(user_info, "created_at")
    IN  IF created_at.t \in {"datetime", "aware", "isostr", "int"}
        THEN LET age_days == AgeDays(clock, created_at.n)
             IN  IF age_days < 1 THEN Points(95)
                 ELSE IF age_days < 7 THEN Points(80)
                 ELSE IF age_days < 30 THEN Points(60)
                 ELSE IF age_days < 90 THEN Points(40)
                 ELSE IF age_days < 365 THEN Points(25)
                 ELSE Points(10)
        ELSE IF created_at.t = "huge" THEN Points(95)
        ELSE Points(50)

\* ProfileAnalyzer._analyze_avatar
_analyze_avatar(user_info) ==
    LET avatar == DictGet(user_info, "avatar")
    IN  IF avatar = None \/ avatar = EmptyStr \/ avatar = Bool(FALSE)
        THEN Points(75) ELSE Points(15)

\* ProfileAnalyzer._calculate_randomness of the three user names, a ratio
_calculate_randomness(username) ==
    CASE username = 21 -> 6500
      [] username = 22 -> 8500
      [] username = 23 -> 8500
      [] OTHER -> 5000

\* len(username), and how many of its characters are digits
UsernameLen(username) ==
    CASE username = 21 -> 5 [] username = 22 -> 9 [] username = 23 -> 10 [] OTHER -> 1
UsernameDigits(username) ==
    CASE username = 21 -> 0 [] username = 22 -> 5 [] username = 23 -> 4 [] OTHER -> 0
\* re.search(r'\d{4,}$', username)
TrailingDigits(username) == username = 22

random_name_threshold == 6000

\* ProfileAnalyzer._analyze_username_pattern
_analyze_username_pattern(user_info) ==
    LET username == IF "username" \in DOMAIN user_info
                    THEN user_info["username"] ELSE EmptyStr
    IN  IF ~Truthy(username) THEN Points(50)
        ELSE LET name == username.n
                 randomness == _calculate_randomness(name)
                 random_score ==
                     IF randomness > random_name_threshold
                     THEN Points(70) + ((randomness - random_name_threshold) * 75) \div 100
                     ELSE Points(20)
                 digit_score ==
                     IF 2 * UsernameDigits(name) > UsernameLen(name) THEN Points(75)
                     ELSE IF 10 * UsernameDigits(name) > 3 * UsernameLen(name)
                     THEN Points(55)
                     ELSE Points(20)
                 serial_score == IF TrailingDigits(name) THEN Points(70) ELSE Points(25)
             IN  _clamp((random_score + digit_score + serial_score) \div 3, 0, Points(100))

\* ProfileAnalyzer._analyze_status
_analyze_status(user_info) ==
    LET status == DictGet(user_info, "status")
        activities == IF "activities" \in DOMAIN user_info
                      THEN user_info["activities"] ELSE EmptyList
    IN  IF ~Truthy(status) /\ ~Truthy(activities) THEN Points(65)
        ELSE IF Truthy(activities) THEN Points(15)
        ELSE IF status = Str(11) THEN Points(35)
        ELSE Points(50)

\* ProfileAnalyzer._analyze_custom_status
_analyze_custom_status(user_info) ==
    IF Truthy(DictGet(user_info, "custom_status")) THEN Points(10) ELSE Points(60)

\* variant: a profile score that drifts with the hour whatever the record
analyze_profile_aging(user_info, clock) ==
    Points(50) + ((clock \div 3600) % 100)

\* ProfileAnalyzer.analyze_profile at the clock reading clock
analyze_profile(user_info, clock) ==
    IF DOMAIN user_info = {} THEN Points(50)
    ELSE _clamp((_analyze_account_age(user_info, clock) * 25
                 + _analyze_avatar(user_info) * 20
                 + _analyze_username_pattern(user_info) * 25
                 + _analyze_status(user_info) * 15
                 + _analyze_custom_status(user_info) * 15) \div 100,
                0, Points(100))

-----------------------------------------------------------------------------
(* analyzer/utils.py: contents *)

\* utils.extract_content: str(content).strip() of a message that carries a
\* content, str("") of a dict without one
extract_content(msg) ==
    IF hasattr(msg, "content") THEN Strip(PyStr(getattr(msg, "content")))
    ELSE IF isdict(msg) /\ "content" \in DOMAIN msg.fields
    THEN Strip(PyStr(msg.fields["content"]))
    ELSE 0

RECURSIVE extract_contents(_, _)
\* utils.extract_contents: the texts that are not empty and longer than min_length
extract_contents(messages, min_length) ==
    IF messages = <<>> THEN <<>>
    ELSE LET content == extract_content(Head(messages))
             rest == extract_contents(Tail(messages), min_length)
         IN  IF content # 0 /\ TextLen(content) > min_length
             THEN <<content>> \o rest ELSE rest

-----------------------------------------------------------------------------
(* What the patterns of style.py and ai_detect.py find in each text *)

\* word_pattern.findall(text.lower()): the words, numbered
Words(text) ==
    CASE text \in {1, 2, 3, 4, 6, 7} -> <<text>>
      [] text = 8  -> <<8, 3>>
      [] text = 9  -> <<11, 12, 13, 14, 15, 16, 17, 18, 19, 20>>
      [] text = 10 -> <<21, 22>>
      [] OTHER -> <<>>

\* len(s.strip()) of the pieces sentence_endings.split(text) leaves
SentenceLengths(text) ==
    CASE text = 1 -> <<2>>      [] text = 2 -> <<5>>       [] text = 3 -> <<8>>
      [] text = 4 -> <<11>>     [] text = 6 -> <<7>>       [] text = 7 -> <<4>>
      [] text = 8 -> <<13, 8>>  [] text = 9 -> <<40, 28>>  [] text = 10 -> <<16, 1>>
      [] OTHER -> <<>>

\* how many of those pieces jp_polite_endings matches
PoliteSentences(text) == CASE text = 3 -> 1 [] text = 8 -> 2 [] OTHER -> 0

\* the texts holding one of the eight jp_template_phrases of style.py
StyleTemplateTexts == {3, 8}

\* len(emoji_pattern.findall(text)): its last range, U+24C2 to U+1F251,
\* takes in kana and kanji
EmojiRuns(text) == CASE text \in {2, 3, 4, 8} -> 1 [] text = 10 -> 2 [] OTHER -> 0

\* len(jp_connectors.findall(text))
JpConnectors(text) == IF text = 10 THEN 1 ELSE 0
\* len(en_connectors.findall(text)) and len(en_passive_voice.findall(text))
EnConnectors(text) == IF text = 9 THEN 2 ELSE 0
EnPassives(text) == IF text = 9 THEN 2 ELSE 0
\* the runs of ".", "!", "?" in the text; text 9 ends with one
AsciiStops(text) == IF text = 9 THEN 2 ELSE 0

\* characters in [぀-ヿ一-鿿] and in [a-zA-Z]
JapaneseChars(text) ==
    CASE text = 2 -> 5 [] text = 3 -> 8 [] text = 4 -> 10 [] text = 8 -> 21
      [] text = 10 -> 13 [] OTHER -> 0
EnglishChars(text) ==
    CASE text = 1 -> 2 [] text = 6 -> 7 [] text = 7 -> 4 [] text = 9 -> 58 [] OTHER -> 0

(***************************************************************************)
(* The substrings of 5 to 19 characters of a text, in families: family t   *)
(* is those of text t that no other text has, except family 3, the 15 of   *)
(* text 3, all of which text 8 has too.                                    *)
(***************************************************************************)
Phrases(text) ==
    CASE text \in {2, 3, 4, 6, 9, 10} -> {text}
      [] text = 8 -> {3, 8}
      [] OTHER -> {}
PhraseCount(family) ==
    CASE family = 2 -> 3     [] family = 3 -> 15    [] family = 4 -> 28
      [] family = 6 -> 6     [] family = 8 -> 165   [] family = 9 -> 900
      [] family = 10 -> 105  [] OTHER -> 0

RECURSIVE Flatten(_, _)
\* the concatenation of F(text) over the contents: "for text in contents" with
\* extend, as in StyleAnalyzer._analyze_vocabulary_diversity
Flatten(F(_), contents) ==
    IF contents = <<>> THEN <<>>
    ELSE F(Head(contents)) \o Flatten(F, Tail(contents))

RECURSIVE Total(_, _)
\* the sum of F(text) over the contents: "for text in contents" with +=, as in
\* AIDetector._analyze_japanese_patterns
Total(F(_), contents) ==
    IF contents = <<>> THEN 0 ELSE F(Head(contents)) + Total(F, Tail(contents))

\* how many of the contents are in the set
CountIn(contents, S) == Cardinality({i \in 1..Len(contents) : contents[i] \in S})

-----------------------------------------------------------------------------
(* analyzer/style.py *)

\* StyleAnalyzer._analyze_vocabulary_diversity
_analyze_vocabulary_diversity(contents) ==
    LET tokens == Flatten(Words, contents)
        T == Len(tokens)
        U == Cardinality({tokens[i] : i \in 1..T})
    IN  IF T < 10 THEN Points(50)
        ELSE IF 10 * U < 3 * T
        THEN Min(Points(100) - (Points(100) * U) \div T, Points(100))
        ELSE Max(Points(10), Points(68) - (Points(60) * U) \div T)

\* StyleAnalyzer._analyze_sentence_length_variance
_analyze_sentence_length_variance(contents) ==
    LET sentence_lengths == Flatten(SentenceLengths, contents)
    IN  IF Len(sentence_lengths) < 5 THEN Points(50)
        ELSE LET cv == CoefficientOfVariation(sentence_lengths)
             IN  IF cv < 3000 THEN Min(Points(60) + (3000 - cv), Points(100))
                 ELSE Max(Points(20), Points(50) - ((cv - 3000) * 4) \div 10)

\* StyleAnalyzer._analyze_template_phrases
_analyze_template_phrases(contents) ==
    IF Len(contents) = 0 THEN Points(50)
    ELSE Min((Points(150) * CountIn(contents, StyleTemplateTexts)) \div Len(contents),
             Points(100))

\* StyleAnalyzer._analyze_emoji_patterns: sqrt(variance) / (mean + 0.1) < 0.3
\* is 10000 n V < 9 (n - 1) (10 S + n)^2 for V = n * sum(x^2) - S^2
_analyze_emoji_patterns(contents) ==
    LET n == Len(contents)
        emoji_counts == [i \in 1..n |-> EmojiRuns(contents[i])]
        messages_with_emoji == Cardinality({i \in 1..n : emoji_counts[i] > 0})
        S == SumSeq(emoji_counts)
        V == n * SumSquares(emoji_counts) - S * S
    IN  IF n = 0 THEN Points(50)
        ELSE IF messages_with_emoji = 0 THEN Points(75)
        ELSE IF n > 2
        THEN IF FracBP(n * V, (n - 1) * (10 * S + n) * (10 * S + n)) < 9
             THEN Points(65) ELSE Points(25)
        ELSE Points(35)

\* StyleAnalyzer._analyze_politeness_consistency
_analyze_politeness_consistency(contents) ==
    LET total_sentences == Len(Flatten(SentenceLengths, contents))
        polite_sentences == Total(PoliteSentences, contents)
    IN  IF total_sentences = 0 THEN Points(50)
        ELSE IF 10 * polite_sentences > 9 * total_sentences
        THEN Min((Points(400) * polite_sentences) \div total_sentences - Points(300),
                 Points(100))
        ELSE IF 10 * polite_sentences < total_sentences THEN Points(70)
        ELSE Points(25)

\* StyleAnalyzer._analyze_punctuation_patterns: no piece of a split on the
\* sentence endings ends with the ending it was split on
_analyze_punctuation_patterns(contents) ==
    IF Len(Flatten(SentenceLengths, contents)) = 0 THEN Points(50) ELSE Points(30)

\* StyleAnalyzer.analyze_style, before the clamp: the weighted sum times 1.05
StyleTotal(contents) ==
    ((_analyze_vocabulary_diversity(contents) * 25
      + _analyze_sentence_length_variance(contents) * 20
      + _analyze_template_phrases(contents) * 20
      + _analyze_emoji_patterns(contents) * 15
      + _analyze_politeness_consistency(contents) * 10
      + _analyze_punctuation_patterns(contents) * 10) * 105) \div 10000

\* StyleAnalyzer.analyze_style
analyze_style(messages) ==
    LET contents == extract_contents(messages, 0)
    IN  IF Len(contents) < 3 THEN Points(50)
        ELSE ClampScore(StyleTotal(contents))

-----------------------------------------------------------------------------
(* analyzer/ai_detect.py *)

\* AIDetector._analyze_japanese_patterns
_analyze_japanese_patterns(contents) ==
    LET total_sentences == Len(Flatten(SentenceLengths, contents))
        polite_sentences == Total(PoliteSentences, contents)
        connector_count == Total(JpConnectors, contents)
        polite_consistency_score ==
            IF 5 * polite_sentences > 4 * total_sentences
            THEN Min((Points(250) * polite_sentences) \div total_sentences - Points(150),
                     Points(90))
            ELSE IF 5 * polite_sentences > 3 * total_sentences
            THEN (Points(100) * polite_sentences) \div total_sentences - Points(30)
            ELSE 0
        connector_score ==
            IF 5 * connector_count >= total_sentences THEN Points(60)
            ELSE Points(20) + (Points(200) * connector_count) \div total_sentences
    IN  IF total_sentences = 0 THEN Points(50)
        ELSE Min(polite_consistency_score + connector_score, Points(100))

\* the pieces re.split(r'[.!?]+', ' '.join(contents)) leaves: every run of
\* stops closes one, and what follows the last run is one more
EnglishSentences(contents) ==
    Total(AsciiStops, contents)
    + (IF AsciiStops(contents[Len(contents)]) = 0 THEN 1 ELSE 0)

\* AIDetector._analyze_english_patterns
_analyze_english_patterns(contents) ==
    LET sentences == EnglishSentences(contents)
        connector_matches == Total(EnConnectors, contents)
        passive_matches == Total(EnPassives, contents)
        words == Len(Flatten(Words, contents))
        connector_score ==
            IF 15 * connector_matches >= 2 * sentences THEN Points(70)
            ELSE Points(30) + (Points(300) * connector_matches) \div sentences
        passive_score ==
            IF words = 0 THEN Points(20)
            ELSE IF 100 * passive_matches >= words THEN Points(60)
            ELSE Points(20) + (Points(4000) * passive_matches) \div words
    IN  Min(connector_score + passive_score, Points(100))

\* AIDetector._detect_repeated_phrases: a phrase common to m of the contents
\* is counted once for each of the m (m - 1) / 2 pairs
_detect_repeated_phrases(contents) ==
    LET n == Len(contents)
        families == UNION {Phrases(contents[i]) : i \in 1..n}
        pairs == [f \in families |->
                    LET m == Cardinality({i \in 1..n : f \in Phrases(contents[i])})
                    IN  (m * (m - 1)) \div 2]
        counted == {f \in families : pairs[f] >= 1}
        repeated == {f \in families : pairs[f] >= 2}
        repeated_phrases == SumFn([f \in repeated |-> PhraseCount(f) * pairs[f]], repeated)
        total_comparisons == (n * (n - 1)) \div 2
    IN  IF n < 3 THEN Points(50)
        ELSE IF counted = {} THEN 0
        ELSE IF 20 * repeated_phrases >= 3 * total_comparisons THEN Points(100)
        ELSE Points(40) + (Points(400) * repeated_phrases) \div total_comparisons

\* AIDetector._analyze_sentence_length_uniformity
_analyze_sentence_length_uniformity(contents) ==
    LET sentence_lengths == Flatten(SentenceLengths, contents)
    IN  IF Len(sentence_lengths) < 5 THEN Points(50)
        ELSE LET cv == CoefficientOfVariation(sentence_lengths)
             IN  IF cv < 2000 THEN Min(Points(50) + ((2000 - cv) * 5) \div 2, Points(100))
                 ELSE Max(Points(10), Points(50) - (cv * 4) \div 5)

\* AIDetector._calculate_ngram_repetition
_calculate_ngram_repetition(contents) ==
    LET words == Flatten(Words, contents)
        trigrams == Len(words) - 2
        distinct == Cardinality({<<words[i], words[i + 1], words[i + 2]>> : i \in 1..trigrams})
        duplicated_trigrams == trigrams - distinct
    IN  IF Len(words) < 10 THEN Points(50)
        ELSE IF 20 * duplicated_trigrams < trigrams THEN Points(15)
        ELSE IF 20 * duplicated_trigrams < 3 * trigrams
        THEN Points(25) + (Points(100) * duplicated_trigrams) \div trigrams
        ELSE Min(Points(60) + (Points(300) * duplicated_trigrams) \div trigrams, Points(100))

\* AIDetector._detect_language_weights, the two character counts; neither
\* kind of character at all weighs the two alike
_detect_language_weights(contents) ==
    LET japanese_chars == Total(JapaneseChars, contents)
        english_chars == Total(EnglishChars, contents)
    IN  IF japanese_chars + english_chars = 0
        THEN [japanese |-> 1, english |-> 1]
        ELSE [japanese |-> japanese_chars, english |-> english_chars]

\* AIDetector.detect_ai_text, before the clamp: the weighted sum times 1.8
\* (BOTCHECK_USE_EXTERNAL_AI is unset)
AiTotal(contents) ==
    LET lang_weights == _detect_language_weights(contents)
        chars == lang_weights.japanese + lang_weights.english
    IN  ((((_analyze_japanese_patterns(contents) * lang_weights.japanese
            + _analyze_english_patterns(contents) * lang_weights.english) \div chars) * 25
          + _detect_repeated_phrases(contents) * 20
          + _analyze_sentence_length_uniformity(contents) * 15
          + _calculate_ngram_repetition(contents) * 15) * 180) \div 10000

\* AIDetector.detect_ai_text
detect_ai_text(messages) ==
    LET contents == extract_contents(messages, 5)
    IN  IF Len(contents) < 3 THEN Points(50)
        ELSE ClampScore(AiTotal(contents))

-----------------------------------------------------------------------------
(* analyzer/engine.py *)

(***************************************************************************)
(* A weight mapping is None (NoWeights) or a dict from keys to numbers.    *)
(* A number of a mapping is map[key] / unit, so that a mapping and its     *)
(* multiples and quotients are all exact: unit 100 makes the values        *)
(* hundredths, and dividing a mapping by its sum makes that sum the unit.  *)
(***************************************************************************)
Axes == {"timing", "style", "behavior", "ai", "profile", "network"}

NoWeights == [given |-> FALSE, unit |-> 100, map |-> EmptyDict]
Weights(unit, map) == [given |-> TRUE, unit |-> unit, map |-> map]

\* the dict AnalysisEngine.__init__ falls back on, in hundredths
DefaultWeights ==
    [timing |-> 20, style |-> 20, behavior |-> 20, ai |-> 15, profile |-> 15,
     network |-> 10]

\* AnalysisEngine.__init__: self.weights = weights or {the defaults}
__init__(w) ==
    IF w.given /\ DOMAIN w.map # {} THEN w ELSE Weights(100, DefaultWeights)

\* sum(w.values()), in units
SumValues(w) == SumFn(w.map, DOMAIN w.map)

\* variant: the weighted sum left undivided by the sum of the weights
total_score_undivided(scores, w) ==
    LET named   == Axes \cap DOMAIN w.map
        unnamed == Axes \ DOMAIN w.map
        num == 100 * SumFn([a \in named |-> scores[a] * w.map[a]], named)
               + w.unit * SumFn([a \in unnamed |-> scores[a] * DefaultWeights[a]], unnamed)
        den == 100 * w.unit
    IN  IF num <= 0 THEN 0
        ELSE IF num >= Points(100) * den THEN Points(100)
        ELSE RoundDiv(num, den)

(***************************************************************************)
(* The weighted total of analyze_user, clamped and rounded to hundredths.  *)
(* An axis the mapping names weighs map[axis] / unit, one it does not      *)
(* weighs its default d / 100, and the divisor is the sum of every value   *)
(* of the mapping, or 1.0 when that sum is not positive:                   *)
(*   (sum s a / unit + sum s d / 100) / (sum a / unit)                     *)
(***************************************************************************)
total_score(scores, w) ==
    LET named   == Axes \cap DOMAIN w.map
        unnamed == Axes \ DOMAIN w.map
        total   == SumValues(w)
        num == 100 * SumFn([a \in named |-> scores[a] * w.map[a]], named)
               + w.unit * SumFn([a \in unnamed |-> scores[a] * DefaultWeights[a]], unnamed)
        den == 100 * (IF total <= 0 THEN w.unit ELSE total)
    IN  IF num <= 0 THEN 0
        ELSE IF num >= Points(100) * den THEN Points(100)
        ELSE RoundDiv(num, den)

\* variant: the second segment starts ten points below the end of the first
confidence_dip(count) ==
    _clamp(IF count >= 100 THEN Points(100)
           ELSE IF count >= 50 THEN Points(90) + (count - 50) * 20
           ELSE IF count >= 20 THEN Points(70) + RoundDiv((count - 20) * 1000, 30)
           ELSE count * 400,
           0, Points(100))

\* variant: four points a message all the way, capped at 100
confidence_linear(count) == _clamp(count * 400, 0, Points(100))

\* the confidence of analyze_user for count messages, rounded to hundredths
confidence(count) ==
    _clamp(IF count >= 100 THEN Points(100)
           ELSE IF count >= 50 THEN Points(90) + (count - 50) * 20
           ELSE IF count >= 20 THEN Points(80) + RoundDiv((count - 20) * 1000, 30)
           ELSE count * 400,
           0, Points(100))

RECURSIVE _extract_user_id(_)
\* AnalysisEngine._extract_user_id
_extract_user_id(messages) ==
    IF messages = <<>> THEN None
    ELSE LET msg == Head(messages)
         IN  IF hasattr(msg, "author_id") THEN getattr(msg, "author_id")
             ELSE IF isdict(msg) /\ "user_id" \in DOMAIN msg.fields
             THEN msg.fields["user_id"]
             ELSE _extract_user_id(Tail(messages))

RECURSIVE _extract_timestamps(_)
\* AnalysisEngine._extract_timestamps: the created_at values that are datetimes
_extract_timestamps(messages) ==
    IF messages = <<>> THEN <<>>
    ELSE LET msg == Head(messages)
             ts  == IF hasattr(msg, "created_at") /\ getattr(msg, "created_at") # None
                    THEN getattr(msg, "created_at")
                    ELSE IF ~hasattr(msg, "created_at") /\ isdict(msg)
                            /\ "created_at" \in DOMAIN msg.fields
                    THEN msg.fields["created_at"]
                    ELSE None
         IN  (IF ts.t \in {"datetime", "aware"} THEN <<ts>> ELSE <<>>)
             \o _extract_timestamps(Tail(messages))

\* max(timestamps) compares a naive datetime with an aware one: TypeError
PeriodRaises(messages) ==
    LET timestamps == _extract_timestamps(messages)
    IN  \E i, j \in 1..Len(timestamps) : timestamps[i].t # timestamps[j].t

\* analysis_period_hours, rounded to hundredths of an hour
analysis_period_hours(messages) ==
    LET timestamps == _extract_timestamps(messages)
        seconds == {timestamps[i].n : i \in 1..Len(timestamps)}
    IN  IF Len(timestamps) < 2 THEN 0
        ELSE RoundDiv(MaxOf(seconds) - (CHOOSE x \in seconds : \A y \in seconds : x <= y), 36)

\* variant: the empty result with a total of 0 and a confidence of 50
_empty_result_zero(clock) ==
    [total_score |-> 0, timing_score |-> Points(50),
     style_score |-> Points(50), behavior_score |-> Points(50),
     ai_score |-> Points(50), profile_score |-> Points(50),
     network_score |-> Points(50), confidence |-> Points(50), message_count |-> 0,
     user_id |-> None, analysis_date |-> clock, analysis_period_hours |-> 0]

\* AnalysisEngine._empty_result
_empty_result(clock) ==
    [total_score |-> Points(50), timing_score |-> Points(50),
     style_score |-> Points(50), behavior_score |-> Points(50),
     ai_score |-> Points(50), profile_score |-> Points(50),
     network_score |-> Points(50), confidence |-> 0, message_count |-> 0,
     user_id |-> None, analysis_date |-> clock, analysis_period_hours |-> 0]

-----------------------------------------------------------------------------
(* Inputs *)

\* seconds of a clock tick (half a day), and the clock's first reading
TickSeconds == 43200
NowBase == 400 * SecondsPerDay
\* datetime.now() at clock reading clock
ClockSeconds(clock) == NowBase + clock * TickSeconds

\* the first message's time, and the seconds from a message to the next
Start == 399 * SecondsPerDay
Step == 60

\* The i-th message of a regular batch, as tests/test_engine.py builds them:
\* a Mock with content, author_id and created_at set, and the attributes
\* the analyzers iterate on given as lists.
Regular(i) ==
    Message("mock", i,
            [content |-> Str(4), author_id |-> PyInt(1),
             created_at |-> DateTime(Start + Step * i), channel_id |-> PyInt(10),
             mentions |-> EmptyList, reactions |-> EmptyList, edited_at |-> None])

\* Regular(i) with some attributes set otherwise
With(i, fields) ==
    Message("mock", i,
            [a \in DOMAIN Regular(i).fields |->
                IF a \in DOMAIN fields THEN fields[a] ELSE Regular(i).fields[a]])

\* Messages that are not like the others: a field missing, None or of an
\* unexpected kind; another author, channel or text.
NOdd == 12
Odd(k, i) ==
    CASE k = 1  -> Message("dict", i, [author_id |-> PyInt(1)])
      [] k = 2  -> With(i, [content |-> None])
      [] k = 3  -> Message("dict", i, [content |-> Str(4), created_at |-> HugeNumber])
      [] k = 4  -> With(i, [author_id |-> PyInt(2), mentions |-> PyInt(5)])
      [] k = 5  -> With(i, [created_at |-> Aware(Start + Step * i)])
      [] k = 6  -> With(i, [created_at |-> Str(6)])
      [] k = 7  -> With(i, [author_id |-> PyInt(2), mentions |-> List(<<1>>)])
      [] k = 8  -> With(i, [content |-> Str(3), channel_id |-> PyInt(11),
                            edited_at |-> DateTime(Start + Step * i + 5),
                            reactions |-> List(<<1>>)])
      [] k = 9  -> Message("obj", i, [content |-> Str(5), author_id |-> None])
      [] k = 10 -> Message("dict", i, [content |-> Str(9), user_id |-> PyInt(7),
                                       created_at |-> PyInt(Start + Step * i)])
      [] k = 11 -> With(i, [mentions |-> List(<<2, 3>>), content |-> Str(2)])
      [] OTHER  -> With(i, [content |-> Str(10), created_at |-> IsoStr(Start + Step * i)])

\* The i-th message of a conversation of two authors in two channels.
Talk(i) ==
    LET texts == <<2, 3, 4, 8, 9, 10, 6, 3, 8, 9>>
    IN  With(i, [content |-> Str(texts[(i % 10) + 1]),
                 author_id |-> PyInt(IF i % 3 = 2 THEN 2 ELSE 1),
                 channel_id |-> PyInt(10 + (i % 2)),
                 mentions |-> IF i % 3 = 0 THEN List(<<2>>)
                              ELSE IF i % 3 = 2 THEN List(<<1>>) ELSE EmptyList,
                 reactions |-> IF i % 4 = 1 THEN List(<<i % 3>>) ELSE EmptyList,
                 edited_at |-> IF i % 5 = 4 THEN DateTime(Start + Step * i + 5)
                               ELSE None])

\* the sizes of the batches with an odd first message, of conversations, and
\* of batches of one template phrase
OddCounts == {1, 3, 4, 10}
TalkCounts == {5, 12}
TemplateCounts == {10}

(***************************************************************************)
(* A batch is named by its size and its kind: 0 is the regular batch,      *)
(* k in 1..NOdd the regular batch whose first message is Odd(k, 0),        *)
(* Conversation the conversation, and Template the batch whose every       *)
(* message is the template phrase of text 3.                               *)
(***************************************************************************)
Conversation == NOdd + 1
Template == NOdd + 2
Batch(count, kind) == [count |-> count, kind |-> kind]

Batches ==
    {Batch(n, 0) : n \in 0..MaxCount}
    \cup {Batch(n, k) : n \in OddCounts, k \in 1..NOdd}
    \cup {Batch(n, Conversation) : n \in TalkCounts}
    \cup {Batch(n, Template) : n \in TemplateCounts}

\* the list of messages of a batch
Messages(batch) ==
    [i \in 1..batch.count |->
        IF batch.kind = Conversation THEN Talk(i - 1)
        ELSE IF batch.kind = Template THEN With(i - 1, [content |-> Str(3)])
        ELSE IF batch.kind > 0 /\ i = 1 THEN Odd(batch.kind, 0)
        ELSE Regular(i - 1)]

\* the profile records: none, an empty one, an account half a day old at the
\* clock's first reading, an old account with everything set, and one whose
\* created_at is no date
Infos ==
    {NoInfo,
     Info(EmptyDict),
     Info([created_at |-> PyInt(NowBase - TickSeconds)]),
     Info([created_at |-> DateTime(SecondsPerDay), avatar |-> Str(21),
           username |-> Str(22), status |-> Str(11), activities |-> EmptyList,
           custom_status |-> None]),
     Info([created_at |-> Str(13), username |-> Str(21)])}

\* the batches analyzed with a profile record
ProfiledCounts == {0, 10}


\* the weight mappings given to AnalysisEngine(): the defaults spelled out,
\* the four axes tests/test_engine.py patches in, one with a key that is no
\* axis, one with a negative value that outweighs the rest
Mappings ==
    {Weights(100, DefaultWeights),
     Weights(100, [timing |-> 40, style |-> 30, behavior |-> 20, ai |-> 10]),
     Weights(100, [timing |-> 20, style |-> 20, behavior |-> 20, ai |-> 15,
                   profile |-> 15, network |-> 10, foo |-> 100]),
     Weights(100, [timing |-> -400, style |-> 500, behavior |-> 0, ai |-> 0,
                   profile |-> 0, network |-> 0])}

\* the mapping with every axis at zero
ZeroWeights == Weights(100, [a \in Axes |-> 0])

\* k * w
Scale(w, k) == [w EXCEPT !.map = [a \in DOMAIN w.map |-> w.map[a] * k]]

\* w divided by its sum (positive)
Normalized(w) == [w EXCEPT !.unit = SumValues(w)]

\* every weights argument an engine is built with
Configurations ==
    {NoWeights, Weights(100, EmptyDict), ZeroWeights}
    \cup {Scale(w, k) : w \in Mappings, k \in 1..MaxScale}
    \cup {Normalized(w) : w \in Mappings}

\* the values patch.object makes the timing, style, behavior and AI
\* analyzers return
NoStubs == [on |-> FALSE, timing |-> 0, style |-> 0, behavior |-> 0, ai |-> 0]
Stub(t, s, b, a) == [on |-> TRUE, timing |-> t, style |-> s, behavior |-> b, ai |-> a]
Stubs ==
    {Stub(Points(75), Points(60), Points(85), Points(70)),
     Stub(0, 0, 0, 0),
     Stub(Points(100), Points(100), Points(100), Points(100))}
StubbedBatches == {Batch(1, 0), Batch(3, 0)}

\* the calls of analyze_user: the messages, the profile record, and the
\* stubs in place during the call
Calls ==
    {<<b, NoInfo, NoStubs>> : b \in Batches}
    \cup {<<Batch(n, 0), info, NoStubs>> : n \in ProfiledCounts, info \in Infos}
    \cup {<<b, NoInfo, stubs>> : b \in StubbedBatches, stubs \in Stubs}

\* the engines and the calls of a caller that repeats a call
RepeatConfigurations ==
    {NoWeights, Weights(100, [timing |-> 40, style |-> 30, behavior |-> 20, ai |-> 10])}
RepeatCalls ==
    {<<b, info, NoStubs>> :
        b \in {Batch(0, 0), Batch(10, 0), Batch(12, Conversation)},
        info \in {NoInfo,
                  Info([created_at |-> PyInt(NowBase - TickSeconds)]),
                  Info([created_at |-> DateTime(SecondsPerDay)])}}

-----------------------------------------------------------------------------
(* AnalysisEngine.analyze_user *)

\* What the analyzers and the metadata helpers make of a list of messages:
\* the exception that leaves analyze_timing or the metadata, "" when none
\* does; the four sub-scores that depend on the messages alone; the metadata.
Analyze(messages) ==
    LET timing_raises == analyze_timing_raises(messages)
        period_raises == PeriodRaises(messages)
    IN  [raises   |-> IF timing_raises # "" THEN timing_raises
                      ELSE IF period_raises THEN "TypeError" ELSE "",
         metadata_raises |-> IF period_raises THEN "TypeError" ELSE "",
         timing   |-> IF timing_raises = "" THEN analyze_timing(messages) ELSE 0,
         style    |-> analyze_style(messages),
         behavior |-> analyze_behavior(messages),
         ai       |-> detect_ai_text(messages),
         network  |-> analyze_network(messages, None),
         count    |-> Len(messages),
         user_id  |-> _extract_user_id(messages),
         period   |-> IF period_raises THEN 0 ELSE analysis_period_hours(messages)]

\* Analyze, batch by batch
Analyzed == [b \in Batches |-> Analyze(Messages(b))]

\* the result record of a call that raised
NoResult ==
    [total_score |-> 0, timing_score |-> 0, style_score |-> 0,
     behavior_score |-> 0, ai_score |-> 0, profile_score |-> 0,
     network_score |-> 0, confidence |-> 0, message_count |-> 0,
     user_id |-> None, analysis_date |-> 0, analysis_period_hours |-> 0]

\* the six sub-scores of a call on messages analyzed as a
SubScores(a, user_info, clock, stubs) ==
    [timing   |-> IF stubs.on THEN stubs.timing ELSE a.timing,
     style    |-> IF stubs.on THEN stubs.style ELSE a.style,
     behavior |-> IF stubs.on THEN stubs.behavior ELSE a.behavior,
     ai       |-> IF stubs.on THEN stubs.ai ELSE a.ai,
     profile  |-> analyze_profile(OrEmpty(user_info), ClockSeconds(clock)),
     network  |-> a.network]

\* the exception that leaves analyze_user, "" when it returns
analyze_user_raises(a, stubs) ==
    IF a.count = 0 THEN ""
    ELSE IF stubs.on THEN a.metadata_raises
    ELSE a.raises

\* AnalysisEngine.analyze_user of an engine whose self.weights is w, on
\* messages analyzed as a, at the clock reading clock, when it returns
analyze_user(w, a, user_info, clock, stubs) ==
    IF a.count = 0 THEN _empty_result(clock)
    ELSE LET scores == SubScores(a, user_info, clock, stubs)
         IN  [total_score    |-> total_score(scores, w),
              timing_score   |-> scores.timing,
              style_score    |-> scores.style,
              behavior_score |-> scores.behavior,
              ai_score       |-> scores.ai,
              profile_score  |-> scores.profile,
              network_score  |-> scores.network,
              confidence     |-> confidence(a.count),
              message_count  |-> a.count,
              user_id        |-> a.user_id,
              analysis_date  |-> clock,
              analysis_period_hours |-> a.period]

-----------------------------------------------------------------------------
(* The engine and its callers *)

\* variant: analyze_user takes the messages off the list as it reads them
MessagesDrained(batch) == Batch(0, batch.kind)

\* The caller's list of messages after analyze_user(messages, user_info): the
\* engine and the analyzers append to lists of their own (timestamps,
\* contents, intervals), sort those, and assign to no element of messages and
\* to no attribute or key of a message.
MessagesAfter(batch) == batch

\* The caller's profile record after the call: "user_info or {}" makes a new
\* dict for None, and the profile analyzer only calls user_info.get.
UserInfoAfter(user_info) == user_info

\* a call of analyze_user: its arguments, what came of it, and the arguments
\* as the call left them
NoCall ==
    [called |-> FALSE, messages |-> Batch(0, 0), user_info |-> NoInfo,
     stubs |-> NoStubs, raised |-> "", result |-> NoResult,
     messages_after |-> Batch(0, 0), user_info_after |-> NoInfo]

\* the call engine.analyze_user(messages, user_info) made now
Call(batch, user_info, stubs) ==
    LET a == Analyzed[batch]
        raised == analyze_user_raises(a, stubs)
    IN  [called |-> TRUE, messages |-> batch, user_info |-> user_info,
         stubs |-> stubs, raised |-> raised,
         result |-> IF raised = "" THEN analyze_user(weights, a, user_info, now, stubs)
                    ELSE NoResult,
         messages_after |-> MessagesAfter(batch),
         user_info_after |-> UserInfoAfter(user_info)]

\* The lists of messages the analyzers are called on, named by the way they
\* are made: kind says which, the other fields are what that kind reads.
NoThread ==
    [own |-> 0, sends |-> 0, theirs |-> 0, returns |-> 0, aside |-> 0,
     channels |-> 0, wide |-> FALSE]
Made(kind) ==
    [kind |-> kind, shapes |-> <<>>, count |-> 0, gap |-> 0, turns |-> FALSE,
     latest_first |-> FALSE, extra |-> 0, thread |-> NoThread]

\* a call of an analyzer: its arguments, and what came of it once called
NoProbe ==
    [analyzer |-> "", called |-> FALSE, messages |-> Made(""), user_info |-> NoInfo,
     target_user_id |-> None, raised |-> "", score |-> 0]

\* the tables of the store, empty
NoRows == [scores |-> <<>>, settings |-> <<>>, alerts |-> <<>>]

\* the store as db/schema.sql leaves it: every table empty.  The tables are
\* as the one connection of the process sees them; durable is what the last
\* commit left of them.
EmptyStore == [scores |-> <<>>, settings |-> <<>>, alerts |-> <<>>, durable |-> NoRows]

\* ALERT_THRESHOLD and MIN_MESSAGES when the environment sets neither
ALERT_THRESHOLD == 80
MIN_MESSAGES == 20
Defaults == [ALERT_THRESHOLD |-> Points(ALERT_THRESHOLD), MIN_MESSAGES |-> MIN_MESSAGES]

\* no request answered yet
NoReply == [to |-> "", asked |-> [count |-> 0, guild_id |-> "", user_id |-> "", limit |-> 0],
            status |-> 0, analyzed |-> FALSE, rows |-> <<>>]

\* neither the API server nor the bot has been asked anything
ServicesIdle ==
    /\ db = EmptyStore
    /\ wall = 0
    /\ reply = NoReply
    /\ tasks = <<>>
    /\ config = Defaults

Init ==
    /\ weights = __init__(NoWeights)
    /\ now = 0
    /\ last = NoCall
    /\ kept = NoCall
    /\ probe = NoProbe
    /\ ServicesIdle

\* engine = AnalysisEngine(weights=w): a new engine, no call made on it yet
Construct(w) ==
    /\ weights' = __init__(w)
    /\ last' = NoCall
    /\ kept' = NoCall
    /\ UNCHANGED <<now, probe, db, wall, reply, tasks, config>>

\* time passes
Tick ==
    /\ now < MaxClock
    /\ now' = now + 1
    /\ UNCHANGED <<weights, last, kept, probe, db, wall, reply, tasks, config>>

\* engine.analyze_user(messages, user_info), the four analyzers replaced by
\* stubs (patch.object) for the time of the call when stubs.on
AnalyzeUser(batch, user_info, stubs) ==
    /\ last' = Call(batch, user_info, stubs)
    /\ UNCHANGED <<weights, now, kept, probe, db, wall, reply, tasks, config>>

\* the caller keeps what the last call returned, to compare a later one with
Keep ==
    /\ last.called
    /\ kept' = last
    /\ UNCHANGED <<weights, now, last, probe, db, wall, reply, tasks, config>>

Next ==
    \/ \E w \in Configurations : Construct(w)
    \/ Tick
    \/ \E c \in Calls : AnalyzeUser(c[1], c[2], c[3])

Spec == Init /\ [][Next]_vars

\* a caller that repeats calls on one engine
NextRepeat ==
    \/ \E w \in RepeatConfigurations : Construct(w)
    \/ Tick
    \/ \E c \in RepeatCalls : AnalyzeUser(c[1], c[2], c[3])
    \/ Keep

SpecRepeat == Init /\ [][NextRepeat]_vars

-----------------------------------------------------------------------------
(* The analyzers called on their own *)

\* the arguments of a call about to be made
Pending(analyzer, messages, user_info, target_user_id) ==
    [NoProbe EXCEPT !.analyzer = analyzer, !.messages = messages,
                    !.user_info = user_info, !.target_user_id = target_user_id]

\* the call returned score
Scored(score) == [probe EXCEPT !.called = TRUE, !.score = score]

\* the call raised
Raised(exception) == [probe EXCEPT !.called = TRUE, !.raised = exception]

\* an engine nobody calls while an analyzer is called on its own
EngineIdle ==
    /\ weights = __init__(NoWeights)
    /\ now = 0
    /\ last = NoCall
    /\ kept = NoCall
    /\ ServicesIdle

\* a message as the tests of the analyzers build them: a Mock with the
\* author, the time and the mentions given
Posted(author_id, created_at, mentions) ==
    Message("mock", 0,
            [content |-> Str(4), author_id |-> PyInt(author_id),
             created_at |-> created_at, channel_id |-> PyInt(10),
             mentions |-> List(mentions), reactions |-> EmptyList,
             edited_at |-> None])

\* the other of the two authors 1 and 2
Other(author_id) == 3 - author_id

(***************************************************************************)
(* Short batches for the timing analyzer: every message is by author 1 or  *)
(* 2, mentions the other author or nobody, and carries a created_at or     *)
(* None; the i-th message is ShortGap seconds after the one before.        *)
(***************************************************************************)
MaxShort == 4
ShortGap == 10
Shapes == {1, 2} \X BOOLEAN \X BOOLEAN
Short(shapes) == [Made("short") EXCEPT !.shapes = shapes]
ShortBatch(shapes) ==
    [i \in 1..Len(shapes) |->
        Posted(shapes[i][1],
               IF shapes[i][3] THEN DateTime(Start + ShortGap * i) ELSE None,
               IF shapes[i][2] THEN <<Other(shapes[i][1])>> ELSE <<>>)]
ShortBatches ==
    UNION {{Short(shapes) : shapes \in [1..n -> Shapes]} : n \in 0..MaxShort}

(***************************************************************************)
(* Batches posted at a fixed pace: count messages gap seconds apart, in    *)
(* the order posted or the latest first, by one author who mentions nobody *)
(* or by two who take turns and mention each other, followed by extra      *)
(* messages with no created_at.                                            *)
(***************************************************************************)
MaxPaced == 12
MaxExtra == 2
Gaps == {1, 10, 300, 86400}
Paced(count, gap, turns, latest_first, extra) ==
    [Made("paced") EXCEPT !.count = count, !.gap = gap, !.turns = turns,
                          !.latest_first = latest_first, !.extra = extra]
PacedBatch(made) ==
    [i \in 1..(made.count + made.extra) |->
        LET k == IF made.latest_first THEN made.count - i ELSE i - 1
            author_id == IF made.turns THEN 1 + (i % 2) ELSE 1
        IN  Posted(author_id,
                   IF i <= made.count THEN DateTime(Start + made.gap * k) ELSE None,
                   IF made.turns THEN <<Other(author_id)>> ELSE <<>>)]
PacedBatches ==
    {Paced(count, gap, turns, latest_first, extra) :
        count \in 3..MaxPaced, gap \in Gaps, turns \in BOOLEAN,
        latest_first \in BOOLEAN, extra \in 0..MaxExtra}

(***************************************************************************)
(* Batches of at most MaxBrief messages ten seconds to a day apart, and    *)
(* batches of dicts that name no author: count messages, each mentioning   *)
(* user 1 when turns is set.                                               *)
(***************************************************************************)
MaxBrief == 6
BriefBatches ==
    {Paced(count, gap, turns, FALSE, 0) :
        count \in 0..MaxBrief, gap \in Gaps, turns \in BOOLEAN}
Unsigned(count, turns) ==
    [Made("unsigned") EXCEPT !.count = count, !.turns = turns]
UnsignedBatch(made) ==
    [i \in 1..made.count |->
        Message("dict", 0,
                [content |-> Str(4), channel_id |-> PyInt(10),
                 mentions |-> IF made.turns THEN List(<<1>>) ELSE EmptyList])]
UnsignedBatches == {Unsigned(count, turns) : count \in 0..MaxBrief, turns \in BOOLEAN}

(***************************************************************************)
(* Batches of dicts that carry a text each: the empty string, blanks, two  *)
(* letters, a greeting and a long formal sentence.                         *)
(***************************************************************************)
MaxSaid == 4
SaidTexts == {0, 5, 1, 4, 9}
Saying(text) ==
    Message("dict", 0,
            [content |-> Str(text), author_id |-> PyInt(1), channel_id |-> PyInt(10)])
Said(texts) == [Made("said") EXCEPT !.shapes = texts]
SaidBatch(texts) == [i \in 1..Len(texts) |-> Saying(texts[i])]
SaidBatches ==
    UNION {{Said(texts) : texts \in [1..n -> SaidTexts]} : n \in 0..MaxSaid}

(***************************************************************************)
(* Threads between user 1 and user 2, with user 3 aside: own messages by   *)
(* user 1, the first sends of which mention user 2 (or, when wide, users 2 *)
(* and 3 in turn); theirs by user 2, the first returns of which mention    *)
(* user 1; aside messages by user 3, each mentioning user 2.  channels     *)
(* tells how many channels a party's messages are spread over: none (no    *)
(* channel_id), one, or two in turn.                                       *)
(***************************************************************************)
MaxOwn == 5
MaxTheirs == 5
MaxAside == 1
Channel(channels, j) ==
    CASE channels = 0 -> None
      [] channels = 1 -> PyInt(10)
      [] OTHER -> PyInt(10 + (j % 2))
Sent(author_id, mentions, channel_id) ==
    Message("mock", 0,
            [content |-> Str(4), author_id |-> PyInt(author_id),
             created_at |-> DateTime(Start), channel_id |-> channel_id,
             mentions |-> List(mentions)])
Thread(own, sends, theirs, returns, aside, channels, wide) ==
    [Made("thread") EXCEPT
        !.thread = [own |-> own, sends |-> sends, theirs |-> theirs,
                    returns |-> returns, aside |-> aside, channels |-> channels,
                    wide |-> wide]]
ThreadBatch(t) ==
    [j \in 1..t.own |->
        Sent(1, IF j > t.sends THEN <<>>
                ELSE IF t.wide /\ j % 2 = 0 THEN <<3>> ELSE <<2>>,
             Channel(t.channels, j))]
    \o [j \in 1..t.theirs |->
          Sent(2, IF j > t.returns THEN <<>> ELSE <<1>>, Channel(t.channels, j))]
    \o [j \in 1..t.aside |-> Sent(3, <<2>>, Channel(t.channels, j))]
Threads ==
    {Thread(p[1], p[2], p[3], p[4], aside, channels, wide) :
        p \in {q \in (0..MaxOwn) \X (0..MaxOwn) \X (0..MaxTheirs) \X (0..MaxTheirs) :
                  q[2] <= q[1] /\ q[4] <= q[3]},
        aside \in 0..MaxAside, channels \in 0..2, wide \in BOOLEAN}

(***************************************************************************)
(* Batches of count messages the first extra of which were edited          *)
(* ("edited"), or carry reactions ("reacted"): the lists of emoji in       *)
(* shapes, taken in turn (one emoji for all, two emoji in turn, or both    *)
(* emoji on each message).                                                 *)
(***************************************************************************)
MaxEdited == 21
MaxReacted == 12
Used(edited_at, reactions) ==
    Message("mock", 0,
            [content |-> Str(4), author_id |-> PyInt(1),
             created_at |-> DateTime(Start), edited_at |-> edited_at,
             reactions |-> List(reactions)])
Edited(count, extra) == [Made("edited") EXCEPT !.count = count, !.extra = extra]
EditedBatch(made) ==
    [j \in 1..made.count |->
        Used(IF j <= made.extra THEN DateTime(Start + Step) ELSE None, <<>>)]
EditedBatches == {Edited(p[1], p[2]) : p \in {q \in (1..MaxEdited) \X (0..MaxEdited) : q[2] <= q[1]}}
EmojiUse == {<<(<<1>>)>>, <<(<<1>>), (<<2>>)>>, <<(<<1, 2>>)>>}
Reacted(count, extra, emoji) ==
    [Made("reacted") EXCEPT !.count = count, !.extra = extra, !.shapes = emoji]
ReactedBatch(made) ==
    [j \in 1..made.count |->
        Used(None,
             IF j > made.extra THEN <<>>
             ELSE made.shapes[1 + (j % Len(made.shapes))])]
ReactedBatches ==
    {Reacted(p[1], p[2], emoji) :
        p \in {q \in (1..MaxReacted) \X (0..MaxReacted) : q[2] <= q[1]},
        emoji \in EmojiUse}

(***************************************************************************)
(* The contacts of user 1 ("circle"): user 1 mentions count users, one     *)
(* message each; extra of them mention user 1 back, and gap users user 1   *)
(* never mentioned mention user 1.                                         *)
(***************************************************************************)
MaxReach == 6
MaxStrangers == 3
Circle(reach, back, strangers) ==
    [Made("circle") EXCEPT !.count = reach, !.extra = back, !.gap = strangers]
CircleBatch(made) ==
    [j \in 1..made.count |-> Sent(1, <<1 + j>>, PyInt(10))]
    \o [j \in 1..made.extra |-> Sent(1 + j, <<1>>, PyInt(10))]
    \o [j \in 1..made.gap |-> Sent(1 + MaxReach + j, <<1>>, PyInt(10))]
Circles ==
    {Circle(p[1], p[2], strangers) :
        p \in {q \in (0..MaxReach) \X (0..MaxReach) : q[2] <= q[1]},
        strangers \in 0..MaxStrangers}

(***************************************************************************)
(* The messages the bot keeps of a user ("kept"), as _analyze_user turns   *)
(* the rows of the messages table into dicts: count messages a minute      *)
(* apart in one channel, the latest first, the first extra of which were   *)
(* edited.                                                                 *)
(***************************************************************************)
MaxKept == 22
KeptMessage(j, created_at, is_edited) ==
    Message("dict", j,
            [content |-> Str(4), content_length |-> PyInt(11), mention_count |-> PyInt(0),
             emoji_count |-> PyInt(0), reaction_count |-> PyInt(0),
             is_reply |-> Bool(FALSE), is_edited |-> Bool(is_edited),
             created_at |-> PyInt(created_at), channel_id |-> Str(10)])
Kept(count, extra) == [Made("kept") EXCEPT !.count = count, !.extra = extra]
KeptBatch(made) ==
    [j \in 1..made.count |->
        KeptMessage(j, Start + Step * (made.count - j), j <= made.extra)]
KeptBatches == {Kept(p[1], p[2]) : p \in {q \in (1..MaxKept) \X (0..MaxKept) : q[2] <= q[1]}}

\* the list of messages made
Posts(made) ==
    CASE made.kind = "short" -> ShortBatch(made.shapes)
      [] made.kind = "paced" -> PacedBatch(made)
      [] made.kind = "unsigned" -> UnsignedBatch(made)
      [] made.kind = "said" -> SaidBatch(made.shapes)
      [] made.kind = "thread" -> ThreadBatch(made.thread)
      [] made.kind = "edited" -> EditedBatch(made)
      [] made.kind = "reacted" -> ReactedBatch(made)
      [] made.kind = "circle" -> CircleBatch(made)
      [] made.kind = "kept" -> KeptBatch(made)
      [] OTHER -> <<>>

TimingInputs == ShortBatches \cup PacedBatches

InitTiming ==
    /\ EngineIdle
    /\ probe \in {Pending("timing", messages, NoInfo, None) : messages \in TimingInputs}

\* TimingAnalyzer().analyze_timing(messages)
AnalyzeTiming ==
    /\ probe.analyzer = "timing" /\ ~probe.called
    /\ probe' = LET messages == Posts(probe.messages)
                IN  IF analyze_timing_raises(messages) = ""
                    THEN Scored(analyze_timing(messages))
                    ELSE Raised(analyze_timing_raises(messages))
    /\ UNCHANGED <<weights, now, last, kept, db, wall, reply, tasks, config>>

SpecTiming == InitTiming /\ [][AnalyzeTiming]_vars

(***************************************************************************)
(* Each of the other five analyzers called once, on little data and on     *)
(* enough: style and AI detection on texts, behavior and network on brief  *)
(* batches (network with the target given or left out, and on messages     *)
(* that name no author), profile on the profile records.                   *)
(***************************************************************************)
Targets == {None, PyInt(1), PyInt(3)}

InitNeutral ==
    /\ EngineIdle
    /\ probe \in
         {Pending(analyzer, messages, NoInfo, None) :
             analyzer \in {"style", "ai"}, messages \in SaidBatches}
         \cup {Pending("behavior", messages, NoInfo, None) : messages \in BriefBatches}
         \cup {Pending("network", messages, NoInfo, target_user_id) :
                 messages \in BriefBatches \cup UnsignedBatches,
                 target_user_id \in Targets}
         \cup {Pending("profile", Made(""), user_info, None) : user_info \in Infos}

\* StyleAnalyzer().analyze_style(messages)
AnalyzeStyle ==
    /\ probe.analyzer = "style" /\ ~probe.called
    /\ probe' = Scored(analyze_style(Posts(probe.messages)))
    /\ UNCHANGED <<weights, now, last, kept, db, wall, reply, tasks, config>>

\* AIDetector().detect_ai_text(messages)
DetectAiText ==
    /\ probe.analyzer = "ai" /\ ~probe.called
    /\ probe' = Scored(detect_ai_text(Posts(probe.messages)))
    /\ UNCHANGED <<weights, now, last, kept, db, wall, reply, tasks, config>>

\* BehaviorAnalyzer().analyze_behavior(messages)
AnalyzeBehavior ==
    /\ probe.analyzer = "behavior" /\ ~probe.called
    /\ probe' = Scored(analyze_behavior(Posts(probe.messages)))
    /\ UNCHANGED <<weights, now, last, kept, db, wall, reply, tasks, config>>

\* NetworkAnalyzer().analyze_network(messages, target_user_id)
AnalyzeNetwork ==
    /\ probe.analyzer = "network" /\ ~probe.called
    /\ probe' = Scored(analyze_network(Posts(probe.messages), probe.target_user_id))
    /\ UNCHANGED <<weights, now, last, kept, db, wall, reply, tasks, config>>

\* ProfileAnalyzer().analyze_profile(user_info): "not user_info" takes None and
\* {} alike
AnalyzeProfile ==
    /\ probe.analyzer = "profile" /\ ~probe.called
    /\ probe' = Scored(analyze_profile(OrEmpty(probe.user_info), ClockSeconds(now)))
    /\ UNCHANGED <<weights, now, last, kept, db, wall, reply, tasks, config>>

NextNeutral ==
    \/ AnalyzeStyle
    \/ DetectAiText
    \/ AnalyzeBehavior
    \/ AnalyzeNetwork
    \/ AnalyzeProfile

SpecNeutral == InitNeutral /\ [][NextNeutral]_vars

\* the network analyzer called on a thread, for user 1 or for the commonest
\* author
InitNetwork ==
    /\ EngineIdle
    /\ probe \in {Pending("network", messages, NoInfo, target_user_id) :
                    messages \in Threads, target_user_id \in {None, PyInt(1)}}

SpecNetwork == InitNetwork /\ [][AnalyzeNetwork]_vars

(***************************************************************************)
(* The account-age score of a profile record whose created_at is a         *)
(* datetime (naive or aware), an ISO string or a number of seconds, from   *)
(* a day in the future to MaxAgeDays days old, at the start and at the     *)
(* last second of each day; or is missing, None, no ISO date, or a value   *)
(* of another type.                                                        *)
(***************************************************************************)
MaxAgeDays == 400
Ages ==
    {days * SecondsPerDay + second :
        days \in (-1)..MaxAgeDays, second \in {0, SecondsPerDay - 1}}
Created(type, age) == Info([created_at |-> Val(type, NowBase - age, <<>>)])
Dated == {Created(type, age) : type \in {"datetime", "aware", "isostr", "int"}, age \in Ages}
Undatable ==
    {Info(EmptyDict), Info([username |-> Str(21)])}
    \cup {Info([created_at |-> v]) : v \in {None, Str(13), EmptyStr, EmptyList, MockObj(1)}}

InitAccountAge ==
    /\ EngineIdle
    /\ probe \in {Pending("account_age", Made(""), user_info, None) :
                    user_info \in Dated \cup Undatable}

\* ProfileAnalyzer()._analyze_account_age(user_info)
AnalyzeAccountAge ==
    /\ probe.analyzer = "account_age" /\ ~probe.called
    /\ probe' = Scored(_analyze_account_age(probe.user_info.fields, ClockSeconds(now)))
    /\ UNCHANGED <<weights, now, last, kept, db, wall, reply, tasks, config>>

SpecAccountAge == InitAccountAge /\ [][AnalyzeAccountAge]_vars

\* the edit-frequency and reaction-usage scores of the behavior analyzer
InitUsage ==
    /\ EngineIdle
    /\ probe \in {Pending("editing", messages, NoInfo, None) : messages \in EditedBatches}
                 \cup {Pending("reaction", messages, NoInfo, None) :
                         messages \in ReactedBatches}

\* BehaviorAnalyzer()._calculate_editing_score(messages)
CalculateEditingScore ==
    /\ probe.analyzer = "editing" /\ ~probe.called
    /\ probe' = Scored(_calculate_editing_score(Posts(probe.messages)))
    /\ UNCHANGED <<weights, now, last, kept, db, wall, reply, tasks, config>>

\* BehaviorAnalyzer()._calculate_reaction_score(messages)
CalculateReactionScore ==
    /\ probe.analyzer = "reaction" /\ ~probe.called
    /\ probe' = Scored(_calculate_reaction_score(Posts(probe.messages)))
    /\ UNCHANGED <<weights, now, last, kept, db, wall, reply, tasks, config>>

NextUsage ==
    \/ CalculateEditingScore
    \/ CalculateReactionScore

SpecUsage == InitUsage /\ [][NextUsage]_vars

\* the behavior analyzer and its mention sub-score called on a thread, its
\* edit sub-score on the messages the bot keeps
InitBehavior ==
    /\ EngineIdle
    /\ probe \in {Pending(analyzer, messages, NoInfo, None) :
                    analyzer \in {"mention", "behavior"}, messages \in Threads}
                 \cup {Pending("editing", messages, NoInfo, None) :
                         messages \in KeptBatches}

\* BehaviorAnalyzer()._analyze_mention_patterns(messages)
AnalyzeMentionPatterns ==
    /\ probe.analyzer = "mention" /\ ~probe.called
    /\ probe' = Scored(_analyze_mention_patterns(Posts(probe.messages)))
    /\ UNCHANGED <<weights, now, last, kept, db, wall, reply, tasks, config>>

NextBehavior ==
    \/ AnalyzeMentionPatterns
    \/ AnalyzeBehavior
    \/ CalculateEditingScore

SpecBehavior == InitBehavior /\ [][NextBehavior]_vars

\* the reciprocity sub-score called on the contacts of user 1
InitReciprocity ==
    /\ EngineIdle
    /\ probe \in {Pending("reciprocity", messages, NoInfo, PyInt(1)) : messages \in Circles}

\* NetworkAnalyzer()._analyze_reciprocity(messages, target_user_id)
AnalyzeReciprocity ==
    /\ probe.analyzer = "reciprocity" /\ ~probe.called
    /\ probe' = Scored(_analyze_reciprocity(Posts(probe.messages),
                                           IdStr(probe.target_user_id)))
    /\ UNCHANGED <<weights, now, last, kept, db, wall, reply, tasks, config>>

SpecReciprocity == InitReciprocity /\ [][AnalyzeReciprocity]_vars

-----------------------------------------------------------------------------
(* api/server.py: the HTTP endpoints over the scores table *)

(***************************************************************************)
(* A row of the scores table carries the columns the INSERT of analyze     *)
(* names, the id the table numbers it with and the analyzed_at the table   *)
(* stamps it with.  db.scores lists the rows in the order of their         *)
(* insertion.  An identifier is a string, "" when the request leaves it    *)
(* out or gives it empty (both are false to `if req.user_id and            *)
(* req.guild_id`).                                                         *)
(***************************************************************************)
MaxBody == 3
MaxStored == 3
MaxSeconds == 2

\* one element of the messages list of a request body, as tests/test_api.py
\* writes them
Json(i) == Message("dict", i, [id |-> PyInt(i), content |-> Str(4), author_id |-> PyInt(1)])

\* the messages list of a request body
Body(count) == [i \in 1..count |-> Json(i)]

\* the analyzers on the messages list of each request body
AnalyzedBody == [count \in 0..MaxBody |-> Analyze(Body(count))]

\* engine.analyze_messages(messages, weights), the messages analyzed as a:
\* a new engine, one call
analyze_messages(a, w) == analyze_user(__init__(w), a, NoInfo, now, NoStubs)

\* the exception that leaves analyze_messages, "" when it returns
analyze_messages_raises(a) == analyze_user_raises(a, NoStubs)

\* what the scores table gives the columns an INSERT leaves out: the next id
\* and the second of the insertion
ScoreDefaults(store, seconds) == [id |-> Len(store.scores) + 1, analyzed_at |-> seconds]

\* db.commit()
Commit(store) ==
    [store EXCEPT !.durable = [scores |-> store.scores, settings |-> store.settings,
                               alerts |-> store.alerts]]

\* INSERT INTO scores (...) VALUES (...)
InsertScore(store, guild_id, user_id, result, seconds) ==
    LET given == ScoreDefaults(store, seconds)
    IN  [store EXCEPT !.scores = Append(@,
            [id |-> given.id, guild_id |-> guild_id, user_id |-> user_id,
             total_score |-> result.total_score, timing_score |-> result.timing_score,
             style_score |-> result.style_score, behavior_score |-> result.behavior_score,
             ai_score |-> result.ai_score, sample_size |-> result.message_count,
             analyzed_at |-> given.analyzed_at])]

\* the request a reply answers
Asked(count, guild_id, user_id, limit) ==
    [count |-> count, guild_id |-> guild_id, user_id |-> user_id, limit |-> limit]

\* an answer: the endpoint, the request, the HTTP status, whether the engine
\* was called, and the rows of the body
Reply(to, asked, status, analyzed, rows) ==
    [to |-> to, asked |-> asked, status |-> status, analyzed |-> analyzed, rows |-> rows]

\* `if not req.messages` never true: an empty list goes on to the engine
Rejected_never(messages) == FALSE

\* `if not req.messages`
Rejected(messages) == messages = <<>>

\* POST /analyze
analyze(count, w, guild_id, user_id) ==
    LET messages == Body(count)
        asked    == Asked(count, guild_id, user_id, 0)
    IN  /\ Len(db.scores) < MaxStored
        /\ IF Rejected(messages)
           THEN /\ reply' = Reply("analyze", asked, 400, FALSE, <<>>)
                /\ UNCHANGED db
           ELSE IF analyze_messages_raises(AnalyzedBody[count]) # ""
           THEN /\ reply' = Reply("analyze", asked, 500, TRUE, <<>>)
                /\ UNCHANGED db
           ELSE /\ db' = IF user_id # "" /\ guild_id # ""
                         THEN Commit(InsertScore(db, guild_id, user_id,
                                                 analyze_messages(AnalyzedBody[count], w),
                                                 wall))
                         ELSE db
                /\ reply' = Reply("analyze", asked, 200, TRUE, <<>>)
        /\ UNCHANGED <<weights, now, last, kept, probe, wall, tasks, config>>

\* whether the row at position a of the table comes before the row at
\* position b under ORDER BY analyzed_at DESC: the later second first, and
\* rows of the same second in the order of the scan, which visits the newest
\* or the oldest of them first
Placed(scores, a, b, newest_first) ==
    \/ scores[a].analyzed_at > scores[b].analyzed_at
    \/ /\ scores[a].analyzed_at = scores[b].analyzed_at
       /\ IF newest_first THEN a > b ELSE a < b

\* SELECT ... FROM scores WHERE user_id = ? ORDER BY analyzed_at DESC
OrderedScores(scores, user_id, newest_first) ==
    LET own    == SelectSeq([i \in 1..Len(scores) |-> i],
                            LAMBDA i : scores[i].user_id = user_id)
        sorted == SortSeq(own, LAMBDA a, b : Placed(scores, a, b, newest_first))
    IN  [j \in 1..Len(sorted) |-> scores[sorted[j]]]

\* LIMIT n of SQLite: the first n rows, and every row when n is negative
Limit(rows, n) ==
    IF n < 0 THEN rows ELSE SubSeq(rows, 1, Min(n, Len(rows)))

\* GET /user/{user_id}/score
get_user_score(user_id) ==
    /\ \E newest_first \in BOOLEAN :
         LET row == Limit(OrderedScores(db.scores, user_id, newest_first), 1)
         IN  reply' = IF row = <<>>
                      THEN Reply("score", Asked(0, "", user_id, 1), 404, FALSE, <<>>)
                      ELSE Reply("score", Asked(0, "", user_id, 1), 200, FALSE, row)
    /\ UNCHANGED <<weights, now, last, kept, probe, db, wall, tasks, config>>

\* the most rows GET /user/{user_id}/history asks the store for
HistoryCap == 100


\* min(limit, 100) bound to LIMIT ?
HistoryLimit(limit) == Min(limit, HistoryCap)

\* GET /user/{user_id}/history?limit=
get_user_history(user_id, limit) ==
    /\ \E newest_first \in BOOLEAN :
         reply' = Reply("history", Asked(0, "", user_id, limit), 200, FALSE,
                        Limit(OrderedScores(db.scores, user_id, newest_first),
                              HistoryLimit(limit)))
    /\ UNCHANGED <<weights, now, last, kept, probe, db, wall, tasks, config>>

\* a second passes
TickSecond ==
    /\ wall < MaxSeconds
    /\ wall' = wall + 1
    /\ UNCHANGED <<weights, now, last, kept, probe, db, reply, tasks, config>>

UserIds == {"u1", "u2"}
GuildIds == {"g1"}

NextApi ==
    \/ \E count \in {0, 1, MaxBody}, guild_id \in GuildIds \cup {""},
          user_id \in UserIds \cup {""} : analyze(count, NoWeights, guild_id, user_id)
    \/ \E user_id \in UserIds : get_user_score(user_id)
    \/ TickSecond

SpecApi == Init /\ [][NextApi]_vars

(***************************************************************************)
(* The history of a user.  The store is taken as a run of successful       *)
(* POST /analyze leaves it: own rows of user u1, two to the second, then   *)
(* others rows of user u2.                                                 *)
(***************************************************************************)
MaxHistory == 120

\* the row that the INSERT of a POST /analyze adds as the i-th of the table
StoredRow(i, user_id) ==
    LET before == [EmptyStore EXCEPT !.scores = [k \in 1..(i - 1) |-> k]]
    IN  InsertScore(before, "g1", user_id,
                    analyze_messages(AnalyzedBody[1], NoWeights), (i - 1) \div 2).scores[i]

\* the store after own rows of u1 and then others rows of u2 were stored
StoreAfter(own, others) ==
    LET scores == [i \in 1..(own + others) |->
                      StoredRow(i, IF i <= own THEN "u1" ELSE "u2")]
    IN  Commit([EmptyStore EXCEPT !.scores = scores])

HistorySizes == {0, 1, 20, HistoryCap - 1, HistoryCap, HistoryCap + 1, MaxHistory}
Limits == {-5, -1, 0, 1, 20, HistoryCap, HistoryCap + 1, 1000}

InitHistory ==
    /\ weights = __init__(NoWeights)
    /\ now = 0
    /\ last = NoCall
    /\ kept = NoCall
    /\ probe = NoProbe
    /\ \E own \in HistorySizes, others \in {0, 2} :
          /\ db = StoreAfter(own, others)
          /\ wall = (own + others) \div 2
    /\ reply = NoReply
    /\ tasks = <<>>
    /\ config = Defaults

NextHistory == \E user_id \in UserIds, limit \in Limits : get_user_history(user_id, limit)

SpecHistory == InitHistory /\ [][NextHistory]_vars

-----------------------------------------------------------------------------
(* discord_bot/bot.py: the command handlers over the store *)

(***************************************************************************)
(* A handler is a coroutine: it runs until it awaits, and between two of   *)
(* its awaits any other handler may run.  The statements the handlers pass *)
(* to the one connection are executed one at a time, in the order they are *)
(* passed.  tasks lists the handlers called so far, each with where it     *)
(* stands (pc) and its local variables.                                    *)
(***************************************************************************)
MaxTasks == 3

\* a call of _toggle_watch: row and new_state are its local variables
Toggle(administrator, pc, row) ==
    [handler |-> "toggle", administrator |-> administrator, pc |-> pc, row |-> row,
     new_state |-> 0]

\* SELECT watch_enabled FROM settings WHERE guild_id = ?
RECURSIVE SelectWatch(_, _)
SelectWatch(settings, guild_id) ==
    IF settings = <<>> THEN <<>>
    ELSE IF Head(settings).guild_id = guild_id
         THEN <<Head(settings).watch_enabled>> \o SelectWatch(Tail(settings), guild_id)
         ELSE SelectWatch(Tail(settings), guild_id)

\* UPDATE settings SET watch_enabled = ? WHERE guild_id = ?
UpdateWatch(store, guild_id, new_state) ==
    [store EXCEPT !.settings =
        [i \in 1..Len(@) |-> IF @[i].guild_id = guild_id
                             THEN [@[i] EXCEPT !.watch_enabled = new_state]
                             ELSE @[i]]]

\* INSERT INTO settings (guild_id, watch_enabled) VALUES (?, ?)
InsertWatch(store, guild_id, new_state) ==
    [store EXCEPT !.settings = Append(@, [guild_id |-> guild_id, watch_enabled |-> new_state])]

\* whether the settings table takes a second row for a guild: it does not
\* when guild_id is its key, and the INSERT raises
SecondRowRaises == {TRUE, FALSE}

\* the first test of _toggle_watch never made: anyone may toggle
Denied_never(administrator) == FALSE

\* `if not interaction.user.guild_permissions.administrator`
Denied(administrator) == ~administrator

\* /botcheck watch: _toggle_watch up to its first await, the answer to a
\* member who is no administrator or the SELECT
_toggle_watch(administrator) ==
    /\ Len(tasks) < MaxTasks
    /\ tasks' = Append(tasks,
                       IF Denied(administrator)
                       THEN Toggle(administrator, "denied", <<>>)
                       ELSE Toggle(administrator, "selected", SelectWatch(db.settings, "g1")))
    /\ UNCHANGED <<weights, now, last, kept, probe, db, wall, reply, config>>

\* _toggle_watch from the SELECT answered to the UPDATE or INSERT passed on
ToggleWrite(i) ==
    /\ tasks[i].handler = "toggle" /\ tasks[i].pc = "selected"
    /\ IF tasks[i].row # <<>>
       THEN LET new_state == IF tasks[i].row[1] # 0 THEN 0 ELSE 1
            IN  /\ db' = UpdateWatch(db, "g1", new_state)
                /\ tasks' = [tasks EXCEPT ![i].pc = "written", ![i].new_state = new_state]
       ELSE IF SelectWatch(db.settings, "g1") = <<>>
       THEN /\ db' = InsertWatch(db, "g1", 1)
            /\ tasks' = [tasks EXCEPT ![i].pc = "written", ![i].new_state = 1]
       ELSE \E raises \in SecondRowRaises :
               IF raises
               THEN /\ tasks' = [tasks EXCEPT ![i].pc = "raised", ![i].new_state = 1]
                    /\ UNCHANGED db
               ELSE /\ db' = InsertWatch(db, "g1", 1)
                    /\ tasks' = [tasks EXCEPT ![i].pc = "written", ![i].new_state = 1]
    /\ UNCHANGED <<weights, now, last, kept, probe, wall, reply, config>>

\* _toggle_watch from the write answered to the commit passed on
ToggleCommit(i) ==
    /\ tasks[i].handler = "toggle" /\ tasks[i].pc = "written"
    /\ db' = Commit(db)
    /\ tasks' = [tasks EXCEPT ![i].pc = "committed"]
    /\ UNCHANGED <<weights, now, last, kept, probe, wall, reply, config>>

\* _toggle_watch to its end: interaction.response.send_message
ToggleAnswer(i) ==
    /\ tasks[i].handler = "toggle" /\ tasks[i].pc \in {"committed", "denied"}
    /\ tasks' = [tasks EXCEPT ![i].pc = "done"]
    /\ reply' = Reply("watch", Asked(0, "g1", "", 0),
                      IF tasks[i].pc = "denied" THEN 403 ELSE 200, FALSE,
                      <<tasks[i].new_state>>)
    /\ UNCHANGED <<weights, now, last, kept, probe, db, wall, config>>

NextWatch ==
    \/ \E administrator \in BOOLEAN : _toggle_watch(administrator)
    \/ \E i \in 1..Len(tasks) : ToggleWrite(i)
    \/ \E i \in 1..Len(tasks) : ToggleCommit(i)
    \/ \E i \in 1..Len(tasks) : ToggleAnswer(i)

SpecWatch == Init /\ [][NextWatch]_vars

(***************************************************************************)
(* /botcheck user.  The rows of the messages table kept of the member are  *)
(* given with the call; the handler reads them with its first statement.   *)
(* guild_id is "" when the command is used outside a guild, and            *)
(* interaction.guild is None then.                                         *)
(***************************************************************************)
MaxCalls == 2

\* a call of _analyze_user: rows (their number: they are the latest kept of
\* the member), result.total_score and the id of the scores row it wrote
\* are its local variables
AnalyzeCall(guild_id, rows, pc) ==
    [handler |-> "analyze", guild_id |-> guild_id, rows |-> rows, pc |-> pc,
     total_score |-> 0, score_id |-> 0]

\* the analyzers on the messages kept of a member, by their number
AnalyzedKept == [count \in {0, MIN_MESSAGES, MaxKept} |-> Analyze(KeptBatch(Kept(count, 0)))]

\* /botcheck user: _analyze_user up to the SELECT of the member's messages
_analyze_user(guild_id, count) ==
    /\ Len(tasks) < MaxCalls
    /\ tasks' = Append(tasks, AnalyzeCall(guild_id, Min(count, 200), "fetched"))
    /\ UNCHANGED <<weights, now, last, kept, probe, db, wall, reply, config>>

\* `if len(rows) < MIN_MESSAGES` never true: any number of messages will do
TooFew_never(rows, minimum) == FALSE

\* `if len(rows) < MIN_MESSAGES`
TooFew(rows, minimum) == rows < minimum

\* _analyze_user from the rows fetched to the warning sent, or to the
\* analysis made and the INSERT INTO scores passed on
AnalyzeScore(i) ==
    /\ tasks[i].handler = "analyze" /\ tasks[i].pc = "fetched"
    /\ IF TooFew(tasks[i].rows, config.MIN_MESSAGES)
       THEN /\ tasks' = [tasks EXCEPT ![i].pc = "done"]
            /\ reply' = Reply("user", Asked(tasks[i].rows, tasks[i].guild_id, "u1", 0),
                              400, FALSE, <<>>)
            /\ UNCHANGED db
       ELSE LET a == AnalyzedKept[tasks[i].rows]
                result == analyze_messages(a, NoWeights)
            IN  IF analyze_messages_raises(a) # ""
                THEN /\ tasks' = [tasks EXCEPT ![i].pc = "raised"]
                     /\ UNCHANGED <<db, reply>>
                ELSE /\ db' = InsertScore(db, tasks[i].guild_id, "u1", result, wall)
                     /\ tasks' = [tasks EXCEPT ![i].pc = "inserted",
                                               ![i].total_score = result.total_score,
                                               ![i].score_id = ScoreDefaults(db, wall).id]
                     /\ UNCHANGED reply
    /\ UNCHANGED <<weights, now, last, kept, probe, wall, config>>

\* _analyze_user from the INSERT answered to the commit passed on
AnalyzeCommit(i) ==
    /\ tasks[i].handler = "analyze" /\ tasks[i].pc = "inserted"
    /\ db' = Commit(db)
    /\ tasks' = [tasks EXCEPT ![i].pc = "committed"]
    /\ UNCHANGED <<weights, now, last, kept, probe, wall, reply, config>>

\* the alert test left to the score alone: a command outside a guild alerts too
AlertDue_anywhere(score, guild_id, threshold) == score >= threshold

\* `if result.total_score >= ALERT_THRESHOLD and interaction.guild`
AlertDue(score, guild_id, threshold) ==
    score >= threshold /\ guild_id # ""

\* _analyze_user from the commit answered to its end, or into _send_alert up
\* to the SELECT of the guild's administrator
AnalyzeAnswer(i) ==
    /\ tasks[i].handler = "analyze" /\ tasks[i].pc = "committed"
    /\ reply' = Reply("user", Asked(tasks[i].rows, tasks[i].guild_id, "u1", 0),
                      200, TRUE, <<>>)
    /\ tasks' = [tasks EXCEPT ![i].pc =
                    IF AlertDue(tasks[i].total_score, tasks[i].guild_id,
                                config.ALERT_THRESHOLD)
                    THEN "alerting" ELSE "done"]
    /\ UNCHANGED <<weights, now, last, kept, probe, db, wall, config>>

\* INSERT INTO alerts (guild_id, user_id, threshold, status, message)
InsertAlert(store, guild_id, user_id, threshold, score) ==
    [store EXCEPT !.alerts = Append(@,
        [guild_id |-> guild_id, user_id |-> user_id, threshold |-> threshold,
         status |-> "sent", message |-> score])]

\* _send_alert from the SELECT answered: the message to the administrator,
\* if the guild has set one, is sent or raises; once it is sent or left out
\* the INSERT INTO alerts is passed on, and what raises is logged
SendAlert(i) ==
    /\ tasks[i].handler = "analyze" /\ tasks[i].pc = "alerting"
    /\ \E raises \in BOOLEAN :
          IF raises
          THEN /\ tasks' = [tasks EXCEPT ![i].pc = "done"]
               /\ UNCHANGED db
          ELSE /\ db' = InsertAlert(db, tasks[i].guild_id, "u1", config.ALERT_THRESHOLD,
                                    tasks[i].total_score)
               /\ tasks' = [tasks EXCEPT ![i].pc = "alerted"]
    /\ UNCHANGED <<weights, now, last, kept, probe, wall, reply, config>>

\* _send_alert from the INSERT answered to its end: the commit
AlertCommit(i) ==
    /\ tasks[i].handler = "analyze" /\ tasks[i].pc = "alerted"
    /\ db' = Commit(db)
    /\ tasks' = [tasks EXCEPT ![i].pc = "done"]
    /\ UNCHANGED <<weights, now, last, kept, probe, wall, reply, config>>

\* the environments the bot is started in: BOTCHECK_ALERT_THRESHOLD unset, or
\* set to 60
Environments == {Defaults, [Defaults EXCEPT !.ALERT_THRESHOLD = Points(60)]}

\* the numbers of messages kept of a member
KeptCounts == {0, MIN_MESSAGES - 1, MIN_MESSAGES, MaxKept}

InitBot ==
    /\ weights = __init__(NoWeights)
    /\ now = 0
    /\ last = NoCall
    /\ kept = NoCall
    /\ probe = NoProbe
    /\ db = EmptyStore
    /\ wall = 0
    /\ reply = NoReply
    /\ tasks = <<>>
    /\ config \in Environments

NextBot ==
    \/ \E guild_id \in GuildIds \cup {""}, count \in KeptCounts : _analyze_user(guild_id, count)
    \/ \E i \in 1..Len(tasks) : AnalyzeScore(i)
    \/ \E i \in 1..Len(tasks) : AnalyzeCommit(i)
    \/ \E i \in 1..Len(tasks) : AnalyzeAnswer(i)
    \/ \E i \in 1..Len(tasks) : SendAlert(i)
    \/ \E i \in 1..Len(tasks) : AlertCommit(i)

SpecBot == InitBot /\ [][NextBot]_vars

-----------------------------------------------------------------------------
(* Properties of analyze_user *)

\* the last call returned a result
Returned == last.called /\ last.raised = ""

\* what the engine as it is would return now for the messages of batch b,
\* no profile given (b raises nothing)
ResultFor(b) == analyze_user(weights, Analyzed[b], NoInfo, now, NoStubs)

ScoreFields ==
    {"total_score", "timing_score", "style_score", "behavior_score", "ai_score",
     "profile_score", "network_score"}

(***************************************************************************)
(* C1.  Whatever the messages, the profile record and the weight mapping,  *)
(* every result analyze_user returns has its six sub-scores and its        *)
(* total_score within [0, 100], and its confidence within [0, 100].        *)
(***************************************************************************)
C1_ScoresWithinRange ==
    Returned =>
        /\ \A f \in ScoreFields :
              last.result[f] >= 0 /\ last.result[f] <= Points(100)
        /\ last.result.confidence >= 0 /\ last.result.confidence <= Points(100)

\* a batch of one template phrase, whose AI sum times 1.8 is past 100, has
\* been analyzed by an engine whose weights put the weighted sum past 100
C1_ClampedScores ==
    /\ Returned
    /\ last.messages.kind = Template
    /\ AiTotal(extract_contents(Messages(last.messages), 5)) > Points(100)
    /\ last.result.ai_score = Points(100)
    /\ \E a \in DOMAIN weights.map : weights.map[a] < 0
    /\ last.result.total_score = Points(100)

(***************************************************************************)
(* C2.  analyze_user on an empty list of messages returns the neutral      *)
(* result: total_score and the six sub-scores 50, confidence 0,            *)
(* message_count 0, user_id None.                                          *)
(***************************************************************************)
C2_EmptyBatchNeutral ==
    (last.called /\ last.messages.count = 0) =>
        /\ last.raised = ""
        /\ \A f \in ScoreFields : last.result[f] = Points(50)
        /\ last.result.confidence = 0
        /\ last.result.message_count = 0
        /\ last.result.user_id = None

\* the empty list has been analyzed, with a profile record that does not score
\* 50 on its own, by an engine whose weights are not the defaults
C2_EmptyBatchAnalyzed ==
    /\ last.called
    /\ last.messages.count = 0
    /\ last.user_info.present
    /\ analyze_profile(OrEmpty(last.user_info), ClockSeconds(now)) # Points(50)
    /\ weights.map # DefaultWeights

(***************************************************************************)
(* C3.  Confidence does not decrease with the number of messages, whatever *)
(* the messages are: a batch no longer than the one just analyzed gets a   *)
(* confidence no higher, and a batch no shorter a confidence no lower.     *)
(***************************************************************************)
C3_ConfidenceMonotone ==
    Returned =>
        \A b \in Batches :
            Analyzed[b].raises = "" =>
                /\ b.count <= last.messages.count
                      => ResultFor(b).confidence <= last.result.confidence
                /\ b.count >= last.messages.count
                      => ResultFor(b).confidence >= last.result.confidence

\* a conversation of 12 messages has been analyzed: there are shorter and
\* longer batches of other messages
C3_MiddleBatchAnalyzed ==
    /\ Returned
    /\ last.messages = Batch(12, Conversation)
    /\ last.result.confidence = 4800
    /\ \E b \in Batches : b.count < 12 /\ b.kind # Conversation
    /\ \E b \in Batches : b.count > 12 /\ b.kind # Conversation

(***************************************************************************)
(* C4.  Confidence is 80 at 20 messages, 90 at 50, 100 from 100 messages   *)
(* on and below 100 before; at most 60 at 3 messages and below 50 at 1.    *)
(***************************************************************************)
C4_ConfidenceBreakpoints ==
    (Returned /\ last.messages.count > 0) =>
        LET count == last.result.message_count
            c     == last.result.confidence
        IN  /\ count = last.messages.count
            /\ count = 20 => c = Points(80)
            /\ count = 50 => c = Points(90)
            /\ count >= 100 => c = Points(100)
            /\ count < 100 => c < Points(100)
            /\ count = 3 => c <= Points(60)
            /\ count = 1 => c < Points(50)

\* a batch past the saturation point has been analyzed
C4_SaturatedBatchAnalyzed ==
    /\ Returned
    /\ last.messages.count = MaxCount
    /\ last.result.confidence = Points(100)

\* the call kept and the last call had the same arguments
SameCall ==
    /\ kept.called /\ last.called
    /\ kept.messages = last.messages
    /\ kept.user_info = last.user_info
    /\ kept.stubs = last.stubs

\* a result but for its analysis_date
Undated(result) == [result EXCEPT !.analysis_date = 0]

\* the age score of the profile record of the last call at a clock reading
AgeScoreAt(clock) ==
    _analyze_account_age(OrEmpty(last.user_info), ClockSeconds(clock))

(***************************************************************************)
(* C5.  Two calls of analyze_user on one engine with the same messages and *)
(* the same profile record return the same result but for analysis_date,   *)
(* whatever calls came in between, as long as the account's age falls in   *)
(* the same bracket at both calls.                                         *)
(***************************************************************************)
C5_RepeatableButForClock ==
    (/\ SameCall
     /\ kept.raised = "" /\ last.raised = ""
     /\ AgeScoreAt(kept.result.analysis_date) = AgeScoreAt(last.result.analysis_date))
        => Undated(kept.result) = Undated(last.result)

\* C5 as stated: the two results are identical, whatever time elapsed
C5_IdenticalResults ==
    SameCall => (kept.raised = last.raised /\ kept.result = last.result)

\* the same messages and the record of an old account analyzed at two clock
\* readings by one engine
C5_RepeatedLater ==
    /\ SameCall
    /\ last.messages.count > 0
    /\ "created_at" \in DOMAIN OrEmpty(last.user_info)
    /\ last.result.profile_score # Points(50)
    /\ kept.result.analysis_date < last.result.analysis_date

\* the scores analyze_user weighs in the last call
LastScores ==
    SubScores(Analyzed[last.messages], last.user_info, last.result.analysis_date,
              last.stubs)

(***************************************************************************)
(* C6.  An engine built with k * w, w a mapping of positive sum that names *)
(* all six axes, returns the total_score of w normalized to sum 1.         *)
(***************************************************************************)
C6_ScaledFullMapping ==
    \A w \in Mappings : \A k \in 1..MaxScale :
        (/\ Returned /\ last.messages.count > 0
         /\ weights = Scale(w, k)
         /\ SumValues(w) > 0
         /\ Axes \subseteq DOMAIN w.map)
            => last.result.total_score = total_score(LastScores, Normalized(w))

\* C6 as stated: also for a mapping that names only some of the axes
C6_ScaledAnyMapping ==
    \A w \in Mappings : \A k \in 1..MaxScale :
        (/\ Returned /\ last.messages.count > 0
         /\ weights = Scale(w, k)
         /\ SumValues(w) > 0)
            => last.result.total_score = total_score(LastScores, Normalized(w))

\* an engine built with twice a mapping of all six axes has analyzed ten
\* messages or more, and the total is no bound of the range
C6_DoubledMappingAnalyzed ==
    /\ Returned
    /\ last.messages.count >= 10
    /\ \E w \in Mappings :
          /\ Axes \subseteq DOMAIN w.map
          /\ weights = Scale(w, 2)
    /\ last.result.total_score > 0
    /\ last.result.total_score < Points(100)

(***************************************************************************)
(* C7.  An engine whose weights are absent, empty or sum to zero or less   *)
(* returns the total_score of the default weights.                          *)
(***************************************************************************)
C7_DefaultsWhenNoWeight ==
    (/\ Returned /\ last.messages.count > 0
     /\ SumValues(weights) <= 0)
        => last.result.total_score
              = total_score(LastScores, Weights(100, DefaultWeights))

\* the weights the normalization described for the engine makes of a mapping:
\* the axes it names with a value of zero or more, over the defaults, divided
\* by their sum; the defaults when that sum is not positive
Effective(w) ==
    LET kept_keys == {a \in Axes \cap DOMAIN w.map : w.map[a] >= 0}
        merged == [a \in Axes |->
                      IF a \in kept_keys THEN w.map[a] * 100
                      ELSE DefaultWeights[a] * w.unit]
        g == GcdSeq(<<merged.timing, merged.style, merged.behavior, merged.ai,
                      merged.profile, merged.network>>)
        reduced == [a \in Axes |-> merged[a] \div Max(g, 1)]
        total == SumFn(reduced, Axes)
    IN  IF total <= 0 THEN Weights(100, DefaultWeights)
        ELSE Weights(total, reduced)

(***************************************************************************)
(* C8.  The weights applied to the six sub-scores are those of the mapping *)
(* reduced to its recognized keys of non-negative value, merged over the   *)
(* defaults and renormalized: a key that is no axis and a negative value   *)
(* leave total_score as it is without them.                                *)
(***************************************************************************)
C8_EffectiveWeights ==
    (Returned /\ last.messages.count > 0)
        => last.result.total_score = total_score(LastScores, Effective(weights))

(***************************************************************************)
(* C9.  With the default weights, one message and no profile record,       *)
(* total_score is within 1 of the mean of the four scores the timing,      *)
(* style, behavior and AI analyzers return.                                *)
(***************************************************************************)
C9_MeanOfFourScores ==
    (/\ Returned
     /\ last.stubs.on
     /\ last.messages.count = 1
     /\ ~last.user_info.present
     /\ weights = Weights(100, DefaultWeights))
        => LET four == last.stubs.timing + last.stubs.style
                       + last.stubs.behavior + last.stubs.ai
               diff == 4 * last.result.total_score - four
           IN  diff <= 4 * Points(1) /\ -diff <= 4 * Points(1)

(***************************************************************************)
(* C10.  No exception leaves analyze_user, whatever fields the messages    *)
(* lack and whatever kind of value they hold.                              *)
(***************************************************************************)
C10_NothingRaised ==
    last.called => last.raised = ""

-----------------------------------------------------------------------------
(* Properties of the analyzers *)

\* the sorted timestamps of the messages that carry one
SortedTimestamps(messages) == Sorted(Numbers(Timestamps(messages)))

(***************************************************************************)
(* C12.  analyze_timing returns 50 whenever fewer than 3 of the messages   *)
(* carry a timestamp, however many messages there are.                     *)
(***************************************************************************)
C12_NeutralBelowThreeTimestamps ==
    (/\ probe.analyzer = "timing" /\ probe.called
     /\ Len(Timestamps(Posts(probe.messages))) < 3)
        => (probe.raised = "" /\ probe.score = Points(50))

\* the gaps between the sorted timestamps are all equal and positive
EvenlyPaced(messages) ==
    LET ts == SortedTimestamps(messages)
    IN  /\ Len(ts) >= 3
        /\ ts[2] > ts[1]
        /\ \A i \in 1..(Len(ts) - 1) : ts[i + 1] - ts[i] = ts[2] - ts[1]

(***************************************************************************)
(* C13.  A batch of at least 3 timestamped messages whose consecutive gaps *)
(* are all equal and positive gets a timing score of 60 or more.           *)
(***************************************************************************)
C13_EvenPaceScoresHigh ==
    (/\ probe.analyzer = "timing" /\ probe.called
     /\ EvenlyPaced(Posts(probe.messages)))
        => (probe.raised = "" /\ probe.score >= Points(60))

\* ten messages exactly five minutes apart have been scored, one author
C13_TenMessagesFiveMinutesApart ==
    /\ probe.analyzer = "timing" /\ probe.called
    /\ probe.messages = Paced(10, 300, FALSE, FALSE, 0)
    /\ EvenlyPaced(Posts(probe.messages))
    /\ probe.score >= Points(60)

\* the messages whose content, stripped, is not the empty string
NonEmptyContents(messages) ==
    Cardinality({i \in 1..Len(messages) :
                    LET content == _get(messages[i], "content", EmptyStr)
                    IN  content.t = "str" /\ Strip(content.n) # 0})

\* no target was given and no message names an author
NoResolvableTarget(messages, given) ==
    /\ given = None
    /\ \A i \in 1..Len(messages) : _get(messages[i], "author_id", None) = None

TargetOf(messages, given) ==
    IF given = None THEN _infer_target_user(messages) ELSE IdStr(given)

\* the messages of the identity id, and the identities message i mentions
AuthoredBy(messages, id) ==
    {i \in 1..Len(messages) : IdStr(_get(messages[i], "author_id", None)) = id}
Mentioned(messages, i) ==
    LET ids == Elements(_get(messages[i], "mentions", EmptyList))
    IN  {ids[j] : j \in 1..Len(ids)}

\* the target wrote a message, mentions nobody and is mentioned by nobody
Isolated(messages, target) ==
    /\ target # NoTarget
    /\ AuthoredBy(messages, target) # {}
    /\ \A i \in AuthoredBy(messages, target) : Mentioned(messages, i) = {}
    /\ \A i \in 1..Len(messages) : target \notin Mentioned(messages, i)

(***************************************************************************)
(* C15.  When there are at least five messages, the target wrote at least  *)
(* one of them, mentions nobody and is mentioned by nobody, analyze_network *)
(* returns at least 55, whatever the channels and whatever the other       *)
(* authors mention among themselves.                                       *)
(***************************************************************************)
C15_IsolatedScoresHigh ==
    (/\ probe.called /\ probe.analyzer = "network"
     /\ Len(Posts(probe.messages)) >= 5
     /\ Isolated(Posts(probe.messages),
                 TargetOf(Posts(probe.messages), probe.target_user_id)))
    => probe.raised = "" /\ probe.score >= Points(55)

\* user 1 wrote three messages without a channel and mentions nobody, while
\* user 3 mentions user 2
C15_IsolatedBesideOthers ==
    /\ probe.called /\ probe.analyzer = "network"
    /\ probe.target_user_id = PyInt(1)
    /\ probe.messages = Thread(3, 0, 2, 0, 1, 0, FALSE)
    /\ Isolated(Posts(probe.messages), 1)
    /\ probe.score >= Points(55)

\* every message is by the target or by other, and mentions just the other
\* of the two; both wrote at least one
Mutual(messages, target, other) ==
    /\ target # NoTarget /\ other # target
    /\ AuthoredBy(messages, target) # {} /\ AuthoredBy(messages, other) # {}
    /\ \A i \in 1..Len(messages) :
          \/ i \in AuthoredBy(messages, target) /\ Mentioned(messages, i) = {other}
          \/ i \in AuthoredBy(messages, other) /\ Mentioned(messages, i) = {target}

(***************************************************************************)
(* C16.  For every batch of six messages between the target and one other  *)
(* identity in which each message mentions the other party and both wrote  *)
(* at least one message, analyze_network returns at most 50.               *)
(***************************************************************************)
C16_MutualScoresLow ==
    (/\ probe.called /\ probe.analyzer = "network"
     /\ Len(Posts(probe.messages)) = 6
     /\ \E other \in {1, 2, 3} :
           Mutual(Posts(probe.messages),
                  TargetOf(Posts(probe.messages), probe.target_user_id), other))
    => probe.raised = "" /\ probe.score <= Points(50)

\* user 1 wrote five of the six messages, user 2 one
C16_FiveToOneConversation ==
    /\ probe.called /\ probe.analyzer = "network"
    /\ probe.messages = Thread(5, 5, 1, 1, 0, 1, FALSE)
    /\ Mutual(Posts(probe.messages), 1, 2)
    /\ probe.score <= Points(50)

\* the target mentions somebody else and nobody mentions the target
OneWay(messages, target) ==
    /\ target # NoTarget
    /\ \E i \in AuthoredBy(messages, target) : Mentioned(messages, i) \ {target} # {}
    /\ \A i \in 1..Len(messages) : target \notin Mentioned(messages, i)

(***************************************************************************)
(* C17.  When there are at least five messages, the target mentions at     *)
(* least one other identity and nobody mentions the target, the mention    *)
(* balance component is 80 and analyze_network returns at least 50.        *)
(***************************************************************************)
C17_OneWayMentions ==
    (/\ probe.called /\ probe.analyzer = "network"
     /\ Len(Posts(probe.messages)) >= 5
     /\ OneWay(Posts(probe.messages),
               TargetOf(Posts(probe.messages), probe.target_user_id)))
    => /\ probe.raised = ""
       /\ _analyze_mention_balance(
              Posts(probe.messages),
              TargetOf(Posts(probe.messages), probe.target_user_id)) = Points(80)
       /\ probe.score >= Points(50)

\* user 1 mentions users 2 and 3 in turn over two channels, and is answered
\* by messages that mention nobody
C17_MentionsUnanswered ==
    /\ probe.called /\ probe.analyzer = "network"
    /\ probe.messages = Thread(5, 4, 2, 0, 1, 2, TRUE)
    /\ OneWay(Posts(probe.messages), 1)
    /\ probe.score >= Points(50)

\* the record of the call carries a creation time that can be read, and the
\* account's age in seconds when called
HasAge == probe.user_info \in Dated
AgeNow == ClockSeconds(now) - probe.user_info.fields["created_at"].n

\* the score of the table for an age in seconds
AgeStep(age) ==
    IF age < 1 * SecondsPerDay THEN Points(95)
    ELSE IF age < 7 * SecondsPerDay THEN Points(80)
    ELSE IF age < 30 * SecondsPerDay THEN Points(60)
    ELSE IF age < 90 * SecondsPerDay THEN Points(40)
    ELSE IF age < 365 * SecondsPerDay THEN Points(25)
    ELSE Points(10)

(***************************************************************************)
(* C18.  The account-age score is the step function of the age in days     *)
(* (below 1: 95, below 7: 80, below 30: 60, below 90: 40, below 365: 25,   *)
(* else 10), and 50 when the creation time is missing or cannot be read;   *)
(* so an older account never scores higher: not a second older, and not a  *)
(* day older.                                                              *)
(***************************************************************************)
C18_AccountAgeSteps ==
    (probe.called /\ probe.analyzer = "account_age") =>
        /\ probe.raised = ""
        /\ IF HasAge
           THEN /\ probe.score = AgeStep(AgeNow)
                /\ \A older \in {1, SecondsPerDay - 1, SecondsPerDay} :
                      _analyze_account_age(
                          Created(probe.user_info.fields["created_at"].t,
                                  AgeNow + older).fields,
                          ClockSeconds(now)) <= probe.score
           ELSE probe.score = Points(50)

\* an account created exactly seven days before the call, given as a number
C18_WeekOldAccountScored ==
    /\ probe.called /\ probe.analyzer = "account_age"
    /\ probe.user_info = Created("int", 7 * SecondsPerDay)
    /\ probe.score = Points(60)

\* the edited messages of the batch the score was calculated for, and its size
EditedCount ==
    Cardinality({i \in 1..Len(Posts(probe.messages)) :
                    _get(Posts(probe.messages)[i], "edited_at", None) # None})
BatchSize == Len(Posts(probe.messages))
\* the edited ratio lies in the band from 5% to 20%
ModerateBand == 20 * EditedCount >= BatchSize /\ 5 * EditedCount <= BatchSize
\* the scores of a batch never edited and of a batch in the band
NeverEditedScore == _calculate_editing_score(Posts(Edited(10, 0)))
ModerateScore == _calculate_editing_score(Posts(Edited(10, 1)))

(***************************************************************************)
(* C19 as stated.  A batch with no edited message gets the high score, a   *)
(* batch whose edited ratio lies in 5%-20% the lowest, and every other     *)
(* ratio a score strictly between the two: so a batch never edited scores  *)
(* strictly higher than any batch with an edited message.                  *)
(***************************************************************************)
C19_EditFrequencyAsStated ==
    (probe.called /\ probe.analyzer = "editing") =>
        /\ ModerateScore < NeverEditedScore
        /\ IF EditedCount = 0 THEN probe.score = NeverEditedScore
           ELSE /\ probe.score < NeverEditedScore
                /\ IF ModerateBand THEN probe.score = ModerateScore
                   ELSE probe.score > ModerateScore

(***************************************************************************)
(* C19.  A batch with no edited message gets the high score, a batch whose *)
(* edited ratio lies in 5%-20% the lowest, every other ratio up to 50% a   *)
(* score strictly between the two, and a ratio above 50% a score above the *)
(* high one: a batch never edited scores strictly higher than any batch    *)
(* of which some but at most half of the messages were edited.             *)
(***************************************************************************)
C19_EditFrequencyBands ==
    (probe.called /\ probe.analyzer = "editing") =>
        /\ ModerateScore < NeverEditedScore
        /\ IF EditedCount = 0 THEN probe.score = NeverEditedScore
           ELSE IF 2 * EditedCount > BatchSize THEN probe.score > NeverEditedScore
           ELSE /\ probe.score < NeverEditedScore
                /\ IF ModerateBand THEN probe.score = ModerateScore
                   ELSE probe.score > ModerateScore

\* six of ten messages were edited
C19_MostlyEditedScored ==
    /\ probe.called /\ probe.analyzer = "editing"
    /\ probe.messages = Edited(10, 6)
    /\ EditedCount = 6
    /\ probe.score > NeverEditedScore

\* the messages with a reaction, and the emoji on them, of a list of messages
ReactedCount(messages) ==
    Cardinality({i \in 1..Len(messages) :
                    Truthy(_get(messages[i], "reactions", EmptyList))})
EmojiTypes(messages) ==
    UNION {{Elements(_get(messages[i], "reactions", EmptyList))[j] :
                j \in 1..Len(Elements(_get(messages[i], "reactions", EmptyList)))} :
             i \in 1..Len(messages)}
\* the ratio of messages with a reaction lies in [0.1, 0.4]
NaturalBand(messages) ==
    /\ 10 * ReactedCount(messages) >= Len(messages)
    /\ 5 * ReactedCount(messages) <= 2 * Len(messages)
\* the score of two reacted messages in ten, with two emoji
NaturalScore == _calculate_reaction_score(Posts(Reacted(10, 2, <<(<<1>>), (<<2>>)>>)))

-----------------------------------------------------------------------------
(* Properties of the HTTP endpoints *)

\* the step is a POST /analyze answered: the list had count messages
Posted_analyze(count) ==
    /\ reply' # reply
    /\ reply'.to = "analyze"
    /\ reply'.asked.count = count

RECURSIVE StoredFor(_, _)
StoredFor(scores, user_id) ==
    IF scores = <<>> THEN <<>>
    ELSE IF Head(scores).user_id = user_id
         THEN <<Head(scores)>> \o StoredFor(Tail(scores), user_id)
         ELSE StoredFor(Tail(scores), user_id)

\* C22: GET /user/{id}/score answers 404 when the store holds no row for the
\* user, and otherwise answers with the row stored last for that user, also
\* when several rows were stored within one second
C22_LatestRowReturned ==
    reply.to = "score" =>
        LET stored == StoredFor(db.scores, reply.asked.user_id)
        IN  IF stored = <<>>
            THEN reply.status = 404
            ELSE reply.status = 200 /\ reply.rows = <<stored[Len(stored)]>>

-----------------------------------------------------------------------------
(* Properties of the metadata and of the behavior sub-scores *)

\* the author id of the first message that carries one other than None, as
\* an attribute or as a key; None when no message does
RECURSIVE FirstAuthor(_)
FirstAuthor(messages) ==
    IF messages = <<>> THEN None
    ELSE IF _get(Head(messages), "author_id", None) # None
         THEN _get(Head(messages), "author_id", None)
         ELSE FirstAuthor(Tail(messages))

\* C23: the user_id analyze_user reports is the author id of the first
\* message of the batch that carries one, messages without an author id or
\* with author id None being skipped, for attribute objects and for dicts
C23_FirstResolvableAuthor ==
    Returned /\ last.messages.count > 0 =>
        last.result.user_id = FirstAuthor(Messages(last.messages))

\* no message of the list mentions anyone
NoMentions(messages) ==
    \A i \in 1..Len(messages) : MentionIds(messages[i]) = <<>>

\* C24: on a batch of at least 5 messages none of which mentions anyone, the
\* mention sub-score is a default above the neutral 50
C24_NoMentionLeansBot ==
    /\ probe.analyzer = "mention" /\ probe.called
    /\ Len(Posts(probe.messages)) >= 5
    /\ NoMentions(Posts(probe.messages))
    => probe.score > Points(50)

\* the six sub-scores of the behavior analyzer on messages
BehaviorScores(messages) ==
    {_analyze_mention_patterns(messages), _analyze_channel_usage(messages),
     _calculate_editing_score(messages), _calculate_reaction_score(messages),
     _analyze_conversation_context(messages),
     _analyze_cross_channel_consistency(messages)}

\* the sum of the six sub-scores under the weights 0.25, 0.20, 0.15, 0.15,
\* 0.15 and 0.10, which sum to 1
WeightedBehavior(messages) ==
    (_analyze_mention_patterns(messages) * 25
     + _analyze_channel_usage(messages) * 20
     + _calculate_editing_score(messages) * 15
     + _calculate_reaction_score(messages) * 15
     + _analyze_conversation_context(messages) * 15
     + _analyze_cross_channel_consistency(messages) * 10) \div 100

\* a call of analyze_behavior on at least 5 messages has returned
BehaviorScored ==
    /\ probe.analyzer = "behavior" /\ probe.called
    /\ Len(Posts(probe.messages)) >= 5

\* C25: on a batch of at least 5 messages the behavior composite is the
\* weighted sum of the six sub-scores, the weights summing to 1, clamped to
\* 0..100, so it is no smaller than the smallest of the six and no larger
\* than the largest
C25_CompositeWithinSubScores ==
    BehaviorScored =>
        LET messages == Posts(probe.messages)
        IN  /\ probe.score = _clamp(WeightedBehavior(messages), 0, Points(100))
            /\ \E s \in BehaviorScores(messages) : s <= probe.score
            /\ \E s \in BehaviorScores(messages) : probe.score <= s

\* the composite lies outside the range of the six sub-scores
C25_AboveEverySubScore ==
    BehaviorScored /\ \A s \in BehaviorScores(Posts(probe.messages)) : s < probe.score

\* 1.25 times a score, capped at 100
Boosted(score) == Min((score * 125) \div 100, Points(100))

\* C25 as amended: on a batch of at least 5 messages the behavior composite
\* is 1.25 times the weighted sum of the six sub-scores, clamped to 0..100,
\* so it is no smaller than 1.25 times the smallest of the six and no
\* larger than 1.25 times the largest, each capped at 100
C25_BoostedComposite ==
    BehaviorScored =>
        LET messages == Posts(probe.messages)
        IN  /\ probe.score >= 0 /\ probe.score <= Points(100)
            /\ probe.score >= Min(WeightedBehavior(messages), Points(100))
            /\ \E s \in BehaviorScores(messages) : Boosted(s) <= probe.score
            /\ \E s \in BehaviorScores(messages) : probe.score <= Boosted(s)

-----------------------------------------------------------------------------
(* Properties of the reciprocity sub-score *)

\* the contacts of user 1 in the circle called on: those it mentions, those
\* of them that mention it back, and all who mention it or are mentioned
Reach == probe.messages.count
MutualContacts == probe.messages.extra
Contacts == probe.messages.count + probe.messages.gap

ReciprocityScored == probe.analyzer = "reciprocity" /\ probe.called

\* C26: the reciprocity sub-score is 60 when the target neither sends nor
\* receives a mention; otherwise the share of mutual contacts among all
\* contacts decides: above 0.5 a score below 45, from 0.2 to 0.5 exactly
\* 45, below 0.2 a score above 45
C26_ReciprocityAsStated ==
    ReciprocityScored =>
        /\ Contacts = 0 => probe.score = Points(60)
        /\ Contacts > 0 /\ 2 * MutualContacts > Contacts => probe.score < Points(45)
        /\ Contacts > 0 /\ 2 * MutualContacts <= Contacts /\ 5 * MutualContacts >= Contacts
              => probe.score = Points(45)
        /\ Contacts > 0 /\ 5 * MutualContacts < Contacts => probe.score > Points(45)

\* C26 as amended: the share 0.2 itself belongs with the shares below it
C26_ReciprocityBands ==
    ReciprocityScored =>
        /\ Contacts = 0 => probe.score = Points(60)
        /\ Contacts > 0 /\ 2 * MutualContacts > Contacts => probe.score < Points(45)
        /\ Contacts > 0 /\ 2 * MutualContacts <= Contacts /\ 5 * MutualContacts > Contacts
              => probe.score = Points(45)
        /\ Contacts > 0 /\ 5 * MutualContacts <= Contacts => probe.score > Points(45)

\* user 1 mentions five users, one of whom mentions it back
C26_OneMutualOfFive ==
    /\ ReciprocityScored
    /\ Reach = 5 /\ MutualContacts = 1 /\ Contacts = 5
    /\ probe.score = Points(65)

-----------------------------------------------------------------------------
(* Properties of the edit marker *)

\* the messages of the list that carry an edit marker: an edited_at other
\* than None, or an is_edited that is true
Marked(messages) ==
    Cardinality({i \in 1..Len(messages) :
                    \/ _get(messages[i], "edited_at", None) # None
                    \/ _get(messages[i], "is_edited", Bool(FALSE)) = Bool(TRUE)})

\* the edit sub-score of a list of n messages of which e count as edited
EditScore(e, n) ==
    IF e = 0 THEN Points(65)
    ELSE IF 2 * e > n THEN Points(70)
    ELSE IF 20 * e >= n /\ 5 * e <= n THEN Points(25)
    ELSE Points(45)

\* C27: a message counts as edited in the edit-frequency ratio when it
\* carries either marker, so the dicts the bot builds from its rows, which
\* carry is_edited alone, count as edited when is_edited is true
C27_EitherMarkerCounts ==
    probe.analyzer = "editing" /\ probe.called =>
        LET messages == Posts(probe.messages)
        IN  probe.score = EditScore(Marked(messages), Len(messages))

-----------------------------------------------------------------------------
(* Properties of the command handlers *)

\* the calls of _toggle_watch by an administrator that ran to their end
CompletedToggles ==
    Cardinality({i \in 1..Len(tasks) :
                    /\ tasks[i].handler = "toggle" /\ tasks[i].administrator
                    /\ tasks[i].pc = "done"})

\* no call of _toggle_watch is under way
NoToggleUnderWay ==
    \A i \in 1..Len(tasks) :
        tasks[i].handler = "toggle" => tasks[i].pc \in {"done", "raised"}

\* watch_enabled of every settings row of the guild is flag
WatchIs(flag) ==
    /\ SelectWatch(db.settings, "g1") # <<>>
    /\ \A j \in 1..Len(SelectWatch(db.settings, "g1")) :
          SelectWatch(db.settings, "g1")[j] = flag

\* C28: starting from no settings row, once n calls of _toggle_watch by an
\* administrator have run to their end, however they interleaved,
\* watch_enabled is 1 if n is odd and 0 if n is even; and a step of a call
\* by a member who is no administrator leaves the settings as they were
C28_FlagFollowsParity ==
    [][/\ (NoToggleUnderWay /\ CompletedToggles > 0 => WatchIs(CompletedToggles % 2))'
       /\ (\E i \in 1..Len(tasks') :
              /\ ~tasks'[i].administrator
              /\ (i > Len(tasks) \/ tasks'[i] # tasks[i]))
          => db' = db]_vars

\* the calls of _analyze_user that took a step
Stepped == {i \in 1..Len(tasks) : i <= Len(tasks') /\ tasks'[i] # tasks[i]}

\* C29: a call of /botcheck user that finds fewer than MIN_MESSAGES messages
\* writes no scores row and no alerts row; and an alerts row is written only
\* by a call made in a guild whose total_score is at least ALERT_THRESHOLD,
\* after the scores row of that call has been committed
C29_AlertsFollowCommittedScores ==
    [][\A i \in Stepped :
          /\ tasks[i].rows < MIN_MESSAGES
                => db'.scores = db.scores /\ db'.alerts = db.alerts
          /\ db'.alerts # db.alerts
                => /\ tasks[i].total_score >= config.ALERT_THRESHOLD
                   /\ tasks[i].guild_id # ""
                   /\ tasks[i].score_id \in 1..Len(db.durable.scores)
                   /\ db.durable.scores[tasks[i].score_id].total_score
                         = tasks[i].total_score]_vars

\* a call in a guild has written its alerts row and ended, one outside a
\* guild with the same score has ended without
C29_AlertRecorded ==
    /\ Len(db.durable.alerts) = 1
    /\ \E i, j \in 1..Len(tasks) :
          /\ tasks[i].pc = "done" /\ tasks[i].guild_id = "g1"
          /\ tasks[j].pc = "done" /\ tasks[j].guild_id = ""
          /\ tasks[j].total_score >= config.ALERT_THRESHOLD

\* C30: GET /user/{user_id}/history answers with at most min(limit, 100)
\* rows, so with no more than 100 whatever integer the caller gives as
\* limit, zero and negative ones included, all of them rows of the user
\* asked for, and leaves the scores table as it was
C30_HistoryCapped ==
    [][reply'.to = "history" /\ reply' # reply =>
          /\ Len(reply'.rows) <= Max(0, Min(reply'.asked.limit, HistoryCap))
          /\ Len(reply'.rows) <= HistoryCap
          /\ \A j \in 1..Len(reply'.rows) : reply'.rows[j].user_id = reply'.asked.user_id
          /\ db' = db]_vars

\* more rows than the cap were returned
C30_MoreThanCapReturned ==
    reply.to = "history" /\ Len(reply.rows) > HistoryCap

====
